---- MODULE Spec2Model ----
(***************************************************************************)
(* Model of the headlong thought stream: the ordered thought timeline      *)
(* (packages/env/supabase_client.py, packages/agent/supabase_client.py),   *)
(* the env daemon's action dispatcher and realtime heartbeat               *)
(* (packages/env/main.py), the sandboxed REPL executor                     *)
(* (packages/agent/repl.py) and the recursive generation loop              *)
(* (packages/agent/llm.py).                                                *)
(*                                                                         *)
(* The module holds several specifications over one set of variables:      *)
(*   SpecSeq  timeline insertions executed one after another               *)
(*   Spec     agent process and env process writing the timeline           *)
(*            concurrently, realtime deliveries, handle_thought tasks      *)
(*   SpecRlm  run_rlm_loop with execute_repl_block                         *)
(*   SpecHb   realtime_heartbeat and the subscription handle               *)
(* A specification leaves the variables of the other parts at their idle   *)
(* values.                                                                 *)
(***************************************************************************)
EXTENDS Integers, Sequences, FiniteSets, TLC

(***************************************************************************)
(* Bounds of the model.                                                    *)
(***************************************************************************)
\* Number of fractional bits of an index.  The column is a double; the
\* model keeps its arithmetic (sum rounded to nearest-even, then halved)
\* on a mantissa scaled down to FracBits bits below 1.0.
FracBits == 2
\* Rows written in a run of SpecSeq.
MaxRows == 5
\* Thoughts written in a run of Spec by the generation loop, by the
\* Telegram listener and by another agent's process, taken together.
MaxWrites == 2
\* handle_thought tasks that pass the filter in a run of Spec.
MaxTasks == 2
\* the largest max_iterations run_rlm_loop is called with in a run of SpecRlm
\* (the source's default is 10).
MaxIterations == 2
\* heartbeat cycles in a run of SpecHb.
MaxCycles == 2
\* probe rows other env daemons insert in a run of SpecHb.
MaxForeign == 1

\* The index 1.0 in model units.
Unit == 2 ^ FracBits

None == "None"

(***************************************************************************)
(* Thought bodies.  A body is a sequence of tokens; "action:" and          *)
(* "ACTION:" are the reserved prefix in two casings, " " is one blank.     *)
(***************************************************************************)
ActionSp == <<"action:", " ", "x">>
ActionUp == <<"ACTION:", " ", "x">>
ActionNoSp == <<"action:", "x">>
Plain == <<"x">>
Observation == <<"observation:", " ", "x">>
ProbeBody == <<"__heartbeat_probe__">>

\* str.lower() on one token
LowerTok(t) == IF t = "ACTION:" THEN "action:" ELSE t

\* str.lower()
Lower(b) == [i \in 1..Len(b) |-> LowerTok(b[i])]

\* str.startswith(prefix)
StartsWith(b, p) == Len(b) >= Len(p) /\ SubSeq(b, 1, Len(p)) = p

(***************************************************************************)
(* The thoughts table.  A row is                                           *)
(*   [id, agent_name, body, index, needs_handling, embedding]              *)
(* needs_handling is "true", "false" or None (no metadata); embedding is   *)
(* None until update_thought_embedding stores a vector.                    *)
(***************************************************************************)
AGENT == "A"

SetMax(S) == CHOOSE x \in S : \A y \in S : y <= x
SetMin(S) == CHOOSE x \in S : \A y \in S : x <= y

\* select index ... eq agent_name
IndicesOf(rs, agent) == {r.index : r \in {x \in rs : x.agent_name = agent}}

\* (a + b) / 2 in double arithmetic: the sum is rounded to the nearest
\* representable value, ties to even, and the halving is exact.
FloatMid(a, b) ==
    LET s == a + b
    IN  IF s % 2 = 0 THEN s \div 2
        ELSE IF ((s - 1) \div 2) % 2 = 0 THEN (s - 1) \div 2
        ELSE (s + 1) \div 2

\* compute_insert_index with the order of the query reversed (desc=True):
\* the midpoint is taken with the largest greater index
compute_insert_index_desc(rs, agent, insert_after_index) ==
    LET gt == {i \in IndicesOf(rs, agent) : i > insert_after_index}
    IN  IF gt = {} THEN insert_after_index + Unit
        ELSE FloatMid(insert_after_index, SetMax(gt))

\* env supabase_client.compute_insert_index
compute_insert_index(rs, agent, insert_after_index) ==
    LET gt == {i \in IndicesOf(rs, agent) : i > insert_after_index}
    IN  IF gt = {} THEN insert_after_index + Unit
        ELSE FloatMid(insert_after_index, SetMin(gt))

\* env supabase_client.add_thought, append branch: max_index of the agent
\* (0 when it has no row)
env_max_index(rs, agent) ==
    IF IndicesOf(rs, agent) = {} THEN 0 ELSE SetMax(IndicesOf(rs, agent))

\* the append counts the agent's rows instead of taking the greatest index
append_index_count(rs, agent) == (Cardinality(IndicesOf(rs, agent)) + 1) * Unit

\* env supabase_client.add_thought, append branch: the index written
append_index(rs, agent) == env_max_index(rs, agent) + Unit

\* agent supabase_client.get_max_thought_index
get_max_thought_index(rs, agent) ==
    IF IndicesOf(rs, agent) = {} THEN 0 ELSE SetMax(IndicesOf(rs, agent))

\* str.strip left out: the text is returned as it is
Strip_none(b) == b

\* str.strip(): agent thought_api is_action, run_rlm_loop's returns
Strip(b) ==
    LET ws(t) == t \in {" ", "NL"}
        first == IF \E i \in 1..Len(b) : ~ws(b[i])
                 THEN SetMin({i \in 1..Len(b) : ~ws(b[i])}) ELSE Len(b) + 1
        last == IF \E i \in 1..Len(b) : ~ws(b[i])
                THEN SetMax({i \in 1..Len(b) : ~ws(b[i])}) ELSE Len(b)
    IN  SubSeq(b, first, last)

\* is_action = thought.strip().lower().startswith("action:")
is_action(b) == StartsWith(Lower(Strip(b)), <<"action:">>)

\* the row the agent's add_thought inserts
AgentRow(id, agent, body, index) ==
    [id |-> id, agent_name |-> agent, body |-> body, index |-> index,
     needs_handling |-> IF is_action(body) THEN "true" ELSE "false",
     embedding |-> None]

\* bodies the generation loop may produce
AgentBodies == {ActionUp, ActionNoSp, Plain}

\* an env add_thought that writes the metadata the agent's add_thought writes
EnvRow_flagged(id, agent, body, index) == AgentRow(id, agent, body, index)

\* the row an env add_thought inserts: no metadata
EnvRow(id, agent, body, index) ==
    [id |-> id, agent_name |-> agent, body |-> body, index |-> index,
     needs_handling |-> None, embedding |-> None]

VARIABLES
    rows,        \* the thoughts table
    nextId,      \* next row id the datastore assigns
    lastWrite,   \* the last timeline insertion: what was asked, what was written
    midExact,    \* every midpoint computed so far was exactly representable
    agPc,        \* agent process: position in the persist step of a cycle
    agNext,      \* agent process: next_index
    tgPc,        \* env process: position in on_telegram_message
    tgMax,       \* env process: max_index read by the Telegram append
    extWrites,   \* thoughts the generator, Telegram and other agents began to write
    feed,        \* change events the subscription has not delivered yet
    tasks,       \* env process: the handle_thought tasks
    handled,     \* env process: _handled_ids
    loopOwner,   \* env process: the coroutine holding the event loop, 0 if none
    fx           \* per thought id: side effects performed on its behalf
                 \* (drop: a delivery of it returned at the filter or the
                 \* dedup check; pass: deliveries that passed both; mark,
                 \* gen, tool, result: handled-mark writes, generate_action
                 \* calls, execute_tool calls, result thoughts written)

VARIABLES
    max_iterations, \* run_rlm_loop: the max_iterations argument
    rlmPc,       \* run_rlm_loop: "call", "exec", "returned", "raised"
    calls,       \* run_rlm_loop: model calls made (iterations started)
    messages,    \* run_rlm_loop: messages
    blocks,      \* run_rlm_loop: blocks of the last reply
    blk,         \* run_rlm_loop: number of the block being executed
    all_output,  \* run_rlm_loop: all_output
    final,       \* the _FinalResult cell: is_set, value
    result,      \* what run_rlm_loop returned
    replPc,      \* execute_repl_block: "idle", "wait" (future.result),
                 \* "shutdown" (leaving the with block after the timeout),
                 \* "returned", "raised"
    wkSt,        \* the pool's worker thread: "none", "run", "done",
                 \* "raised" (an Exception), "exited" (a BaseException)
    wkPos,       \* the worker's position in the block
    buf          \* execute_repl_block: buf

VARIABLES
    hbPc,            \* realtime_heartbeat: "off", "sleep", "wait" (wait_for),
                     \* "unsub" (await channel.unsubscribe()), "sub" (await
                     \* subscribe_to_thoughts), "finally"
    cycle,           \* heartbeat cycles completed
    channel,         \* main's channel: the handle of the subscription in use
    chan,            \* every handle's state: "none", "live", "dead" (it
                     \* stopped delivering without an error), "closed"
    heartbeat_event, \* the asyncio.Event
    probe_id,        \* realtime_heartbeat: probe_id (0 is None)
    probes,          \* ids of this daemon's probe rows stored in the table
    pending,         \* change events of probe rows not yet delivered:
                     \* [ch |-> handle, id |-> row id], id 0 for a row of
                     \* another daemon
    foreign,         \* probe rows other daemons have inserted
    curProbe,        \* the row the current cycle inserted (0: none)
    echoAt,          \* when the callback first got curProbe's event:
                     \* "never", "wait" (during the wait, through channel),
                     \* "stale" (during the wait, through another handle),
                     \* "late" (after the wait)
    before           \* channel when the current cycle started

hbVars == <<hbPc, cycle, channel, chan, heartbeat_event, probe_id, probes,
            pending, foreign, curProbe, echoAt, before>>

rlmVars == <<max_iterations, rlmPc, calls, messages, blocks, blk, all_output, final, result,
             replPc, wkSt, wkPos, buf>>

\* agent thought_api: the auto-generation loop and its two requests
VARIABLES
    loop_running,    \* _loop_running
    loop_task,       \* _loop_task: the task's number, 0 for None
    loops,           \* the tasks create_task has made, by number:
                     \* [pc, must_cancel, stopped, cycles, persisted, last]
                     \* pc "unborn", "ready" (created or woken, not yet
                     \* run), "sleep" (the delay after a thought),
                     \* "cooldown" (the 5 s after an error), "cancelled",
                     \* "exited" (the while condition was false), "died"
                     \* (an exception left the task), "hung" (the cycle
                     \* never returns); last is how the last cycle ended
    lastReq,         \* the request that completed last: "none", "start",
                     \* "already_running", "stop"
    delay_ms,        \* req.delay_ms of the /loop/start request
    slept            \* milliseconds the task's last asyncio.sleep lasted

apiVars == <<loop_running, loop_task, loops, lastReq, delay_ms, slept>>

\* agent repl: the namespace of a generation session
VARIABLES
    namespace,       \* the names a block can bind or read, each with its
                     \* value or Unbound
    safe_builtins,   \* the names in namespace["__builtins__"]
    lastCall         \* the last call of FINAL or FINAL_VAR: the function,
                     \* its argument, the cell before it, what it raised

nsVars == <<namespace, safe_builtins, lastCall>>

\* env supabase_client: the on_change handler of the subscription
VARIABLES
    payload,         \* the payload the handler was last called with
    callbacks,       \* the records the thought callback was called with
                     \* for that payload
    on_change_raised \* an exception left the handler

subVars == <<payload, callbacks, on_change_raised>>

tlVars == <<rows, nextId, lastWrite, midExact>>
agVars == <<agPc, agNext>>
tgVars == <<tgPc, tgMax>>
envVars == <<feed, tasks, handled, loopOwner, fx>>
vars == <<rows, nextId, lastWrite, midExact, agPc, agNext, tgPc, tgMax,
          extWrites, feed, tasks, handled, loopOwner, fx, max_iterations, rlmPc,
          calls, messages,
          blocks, blk, all_output, final, result, replPc, wkSt, wkPos, buf,
          hbPc, cycle, channel, chan, heartbeat_event, probe_id, probes,
          pending, foreign, curProbe, echoAt, before,
          loop_running, loop_task, loops, lastReq, delay_ms, slept,
          namespace, safe_builtins, lastCall, payload, callbacks,
          on_change_raised>>

\* lastWrite: kind is "append", "insert" (after ref) or "text" (the
\* dispatcher's text result for the action at ref); before holds the
\* agent's indices at the time of the write; prev is the write before it
NoPrev == [kind |-> "none", ref |-> 0, index |-> 0, before |-> {}]
NoWrite == [kind |-> "none", ref |-> 0, index |-> 0, before |-> {},
            prev |-> NoPrev]

Earlier(w) ==
    [kind |-> w.kind, ref |-> w.ref, index |-> w.index, before |-> w.before]

OTHER_AGENT == "B"
MaxId == MaxWrites + MaxTasks
NoThought == [id |-> 0, agent_name |-> None, body |-> <<>>, index |-> 0,
              needs_handling |-> None, embedding |-> None]
FreeTask == [pc |-> "free", th |-> NoThought, idx |-> 0]
DoneTask == [pc |-> "done", th |-> NoThought, idx |-> 0]
NoFx == [drop |-> 0, pass |-> 0, mark |-> 0, gen |-> 0, tool |-> 0, result |-> 0]
TG == MaxTasks + 1

NoValue == <<"<None>">>

\* handles subscribe_to_thoughts can return in a run: the first and one for
\* each cycle
Handles == 1..(MaxCycles + 1)

\* the idle values of the heartbeat's variables
HbIdle ==
    /\ hbPc = "off" /\ cycle = 0 /\ channel = 0
    /\ chan = [h \in Handles |-> "none"]
    /\ heartbeat_event = FALSE /\ probe_id = 0 /\ probes = {} /\ pending = {}
    /\ foreign = 0 /\ curProbe = 0 /\ echoAt = "never" /\ before = 0

\* loop tasks made in a run of SpecLoop
MaxStarts == 2
\* generation cycles one loop task starts in a run of SpecLoop
MaxLoopCycles == 2

NoLoop == [pc |-> "unborn", must_cancel |-> FALSE, stopped |-> FALSE,
           cycles |-> 0, persisted |-> 0, last |-> "none"]

\* thought_api lines 29-30: no loop, no task
ApiIdle ==
    /\ loop_running = FALSE
    /\ loop_task = 0
    /\ loops = [i \in 1..MaxStarts |-> NoLoop]
    /\ lastReq = "none"
    /\ delay_ms = 0
    /\ slept = 0

Unbound == [t |-> "unbound", v |-> "-"]
\* names of the session namespace the model follows: one the namespace is
\* created with, two a block may bind
VarNames == {"agent_name", "x", "y"}
NoCall == [fn |-> "none", arg |-> [t |-> "none", v |-> "-"], raised |-> None,
           before |-> [is_set |-> FALSE, value |-> NoValue]]

\* no session namespace
NsIdle ==
    /\ namespace = [n \in VarNames |-> Unbound]
    /\ safe_builtins = {}
    /\ lastCall = NoCall

\* no payload delivered, no callback made
NoData == [shape |-> "absent", record |-> "absent", new |-> "absent"]
NoPayload == [kind |-> "none", data |-> NoData, record |-> "absent",
              new |-> "absent"]
SubIdle ==
    /\ payload = NoPayload
    /\ callbacks = <<>>
    /\ on_change_raised = FALSE

\* the idle values of the generation loop's variables
RlmIdle ==
    /\ max_iterations = 0
    /\ rlmPc = "off" /\ calls = 0 /\ messages = <<>> /\ blocks = <<>> /\ blk = 0
    /\ all_output = <<>> /\ final = [is_set |-> FALSE, value |-> NoValue]
    /\ result = NoValue /\ replPc = "idle" /\ wkSt = "none" /\ wkPos = 0
    /\ buf = <<>>

\* the idle values of the process variables
ProcIdle ==
    /\ agPc = "idle" /\ agNext = 0
    /\ tgPc = "idle" /\ tgMax = 0
    /\ extWrites = 0
    /\ feed = {}
    /\ tasks = [t \in 1..MaxTasks |-> FreeTask]
    /\ handled = {}
    /\ loopOwner = 0
    /\ fx = [i \in 1..MaxId |-> NoFx]

\* a midpoint that needs no rounding
ExactMid(rs, agent, r) ==
    LET gt == {i \in IndicesOf(rs, agent) : i > r}
    IN  gt = {} \/ (r + SetMin(gt)) % 2 = 0

(***************************************************************************)
(* SpecSeq: insertions executed one after another on one agent's timeline. *)
(***************************************************************************)
SeqInit ==
    /\ rows = {}
    /\ nextId = 1
    /\ lastWrite = NoWrite
    /\ midExact = TRUE
    /\ ProcIdle
    /\ RlmIdle
    /\ HbIdle
    /\ ApiIdle
    /\ NsIdle
    /\ SubIdle

\* add_thought(agent, body): append
SeqAppend ==
    /\ nextId <= MaxRows
    /\ LET idx == append_index(rows, AGENT)
       IN  /\ rows' = rows \cup {EnvRow(nextId, AGENT, Observation, idx)}
           /\ lastWrite' = [kind |-> "append", ref |-> 0, index |-> idx,
                            before |-> IndicesOf(rows, AGENT),
                            prev |-> Earlier(lastWrite)]
    /\ nextId' = nextId + 1
    /\ UNCHANGED <<nsVars, subVars, apiVars, hbVars, rlmVars, midExact, agVars, tgVars, extWrites, envVars>>

\* add_thought(agent, body, insert_after_index = r), r the index of a row
SeqInsertAfter ==
    /\ nextId <= MaxRows
    /\ \E r \in IndicesOf(rows, AGENT) :
         LET idx == compute_insert_index(rows, AGENT, r)
         IN  /\ rows' = rows \cup {EnvRow(nextId, AGENT, Observation, idx)}
             /\ lastWrite' = [kind |-> "insert", ref |-> r, index |-> idx,
                              before |-> IndicesOf(rows, AGENT),
                              prev |-> Earlier(lastWrite)]
             /\ midExact' = (midExact /\ ExactMid(rows, AGENT, r))
    /\ nextId' = nextId + 1
    /\ UNCHANGED <<nsVars, subVars, apiVars, hbVars, rlmVars, agVars, tgVars, extWrites, envVars>>

\* agent: next_index = get_max_thought_index(agent) + 1.0; add_thought(...)
SeqAgentAppend ==
    /\ nextId <= MaxRows
    /\ \E body \in AgentBodies :
         LET idx == get_max_thought_index(rows, AGENT) + Unit
         IN  /\ rows' = rows \cup {AgentRow(nextId, AGENT, body, idx)}
             /\ lastWrite' = [kind |-> "append", ref |-> 0, index |-> idx,
                              before |-> IndicesOf(rows, AGENT),
                              prev |-> Earlier(lastWrite)]
    /\ nextId' = nextId + 1
    /\ UNCHANGED <<nsVars, subVars, apiVars, hbVars, rlmVars, midExact, agVars, tgVars, extWrites, envVars>>

SeqNext == SeqAppend \/ SeqInsertAfter \/ SeqAgentAppend

SpecSeq == SeqInit /\ [][SeqNext]_vars

(***************************************************************************)
(* Claims on SpecSeq                                                       *)
(***************************************************************************)
NoDupIndex ==
    \A r1, r2 \in rows :
        (r1.agent_name = r2.agent_name /\ r1.index = r2.index) => r1.id = r2.id

\* the row of an append sorts last at the time it is written
AppendSortsLast ==
    lastWrite.kind = "append" => \A i \in lastWrite.before : i < lastWrite.index

\* the row of an insert-after sorts directly after its reference row
InsertSortsAfterRef ==
    lastWrite.kind = "insert" =>
        /\ lastWrite.ref < lastWrite.index
        /\ \A i \in lastWrite.before : i > lastWrite.ref => lastWrite.index < i

\* C3 as stated: for every sequence of insertions executed one after
\* another, no two rows of the agent share an index, an appended row sorts
\* last and an inserted row sorts directly after its reference row.
C3_AnySequenceOrdered ==
    NoDupIndex /\ AppendSortsLast /\ InsertSortsAfterRef

\* C3 amended: the same, for the sequences in which every midpoint computed
\* was exactly representable in the index column's floating-point type.
C3_ExactSequenceOrdered ==
    midExact => (NoDupIndex /\ AppendSortsLast /\ InsertSortsAfterRef)

\* C3 witness: an insertion between two existing rows, computed exactly,
\* on a timeline that already holds appended and inserted rows.
C3_Witness ==
    /\ midExact
    /\ lastWrite.kind = "insert"
    /\ \E i \in lastWrite.before : i > lastWrite.ref
    /\ Cardinality(rows) >= 4

(***************************************************************************)
(* Spec: the agent process and the env process on one datastore.           *)
(*                                                                         *)
(* The two processes interleave at every datastore call.  Inside the env   *)
(* process the coroutines share one event loop: a coroutine keeps the loop *)
(* (loopOwner) from one suspension point to the next, and the datastore    *)
(* and model calls of handle_thought and add_thought are blocking calls    *)
(* that do not suspend; the awaited tool call does.                        *)
(***************************************************************************)
\* The table is empty, or holds an action thought that the process of
\* another agent has persisted and whose change event is still to be
\* delivered: the subscription is on the whole table.
OtherRow == AgentRow(1, OTHER_AGENT, ActionSp, Unit)

Init ==
    /\ rows \in {{}, {OtherRow}}
    /\ nextId = Cardinality(rows) + 1
    /\ lastWrite = NoWrite
    /\ midExact = TRUE
    /\ agPc = "idle" /\ agNext = 0
    /\ tgPc = "idle" /\ tgMax = 0
    /\ extWrites = Cardinality(rows)
    /\ feed = rows
    /\ tasks = [t \in 1..MaxTasks |-> FreeTask]
    /\ handled = {}
    /\ loopOwner = 0
    /\ fx = [i \in 1..MaxId |-> NoFx]
    /\ RlmIdle
    /\ HbIdle
    /\ ApiIdle
    /\ NsIdle
    /\ SubIdle

\* The change events of a write that the subscription will deliver.  An
\* event whose record does not carry needs_handling = true is not kept:
\* handle_thought returns at its filter (line 78) for it, whenever it is
\* delivered, and changes nothing.
Events(changed) == {r \in changed : r.needs_handling = "true"}

\* a datastore insert: the row is stored and its change event is fed to
\* the subscription
InsertRow(row, kind, ref) ==
    /\ rows' = rows \cup {row}
    /\ nextId' = nextId + 1
    /\ feed' = feed \cup Events({row})
    /\ lastWrite' = [kind |-> kind, ref |-> ref, index |-> row.index,
                     before |-> IndicesOf(rows, row.agent_name),
                     prev |-> Earlier(lastWrite)]

---------------------------------------------------------------------------
\* agent thought_api.run_loop / generate_thought:
\*   next_index = supabase_client.get_max_thought_index(agent_name) + 1.0
AgentReadMax ==
    /\ agPc = "idle"
    /\ extWrites < MaxWrites
    /\ extWrites' = extWrites + 1
    /\ agNext' = get_max_thought_index(rows, AGENT) + Unit
    /\ agPc' = "write"
    /\ UNCHANGED <<nsVars, subVars, apiVars, hbVars, rlmVars, tlVars, tgVars, envVars>>

\*   supabase_client.add_thought(agent_name, full_text, next_index, metadata)
AgentAddThought ==
    /\ agPc = "write"
    /\ \E body \in AgentBodies :
         InsertRow(AgentRow(nextId, AGENT, body, agNext), "append", 0)
    /\ agPc' = "idle"
    /\ agNext' = 0
    /\ UNCHANGED <<nsVars, subVars, apiVars, hbVars, rlmVars, midExact, tgVars, extWrites, tasks, handled, loopOwner, fx>>

---------------------------------------------------------------------------
\* env main.on_telegram_message -> add_thought(agent_name, text):
\* the max-index query
TelegramReadMax ==
    /\ tgPc = "idle"
    /\ extWrites < MaxWrites
    /\ extWrites' = extWrites + 1
    /\ loopOwner = 0
    /\ tgMax' = env_max_index(rows, AGENT)
    /\ tgPc' = "write"
    /\ loopOwner' = TG
    /\ UNCHANGED <<nsVars, subVars, apiVars, hbVars, rlmVars, tlVars, agVars, feed, tasks, handled, fx>>

\* ... and the insert of max_index + 1.0
TelegramInsert ==
    /\ tgPc = "write"
    /\ InsertRow(EnvRow(nextId, AGENT, Observation, tgMax + Unit), "append", 0)
    /\ tgPc' = "idle"
    /\ tgMax' = 0
    /\ loopOwner' = 0
    /\ UNCHANGED <<nsVars, subVars, apiVars, hbVars, rlmVars, midExact, agVars, extWrites, tasks, handled, fx>>

---------------------------------------------------------------------------
\* handle_thought lines 73-77: the filter
Actionable(th) ==
    /\ StartsWith(Lower(th.body), <<"action:", " ">>)
    /\ th.needs_handling = "true"

\* the dedup check left out: no delivery is taken for a duplicate
AlreadyHandled_never(id) == FALSE

\* handle_thought line 83: thought_id in _handled_ids
AlreadyHandled(id) == id \in handled

Bump(id, f) == [fx EXCEPT ![id][f] = @ + 1]

\* the handled-mark write left out: the task starts at the context query
FirstStep_fetch == "fetch"

\* the callback waits for the handling: the task is over when it returns
FirstStep_done == "done"

\* handle_thought line 97: the first call after the dedup check is
\* mark_thought_handled
FirstStep == "mark"

FreeSlots == {t \in 1..MaxTasks : tasks[t].pc = "free"}

\* main.on_thought: the subscription delivers a change event and the
\* callback schedules handle_thought(thought, agent_name); the transport
\* may deliver the same event again (keep).  The task runs lines 69-94
\* (filter, dedup, _handled_ids.add) without suspending; it then holds the
\* event loop up to its first await that suspends.
OnThought ==
    /\ loopOwner = 0
    /\ \E e \in feed, keep \in BOOLEAN :
         /\ feed' = IF keep THEN feed ELSE feed \ {e}
         /\ IF Actionable(e) /\ ~AlreadyHandled(e.id)
            THEN /\ FreeSlots # {}
                 /\ handled' = handled \cup {e.id}
                 /\ tasks' = [tasks EXCEPT ![SetMin(FreeSlots)] =
                                  [pc |-> FirstStep, th |-> e, idx |-> 0]]
                 /\ loopOwner' = SetMin(FreeSlots)
                 /\ fx' = Bump(e.id, "pass")
            ELSE /\ fx' = [fx EXCEPT ![e.id].drop = 1]
                 /\ UNCHANGED <<tasks, handled, loopOwner>>
    /\ UNCHANGED <<nsVars, subVars, apiVars, hbVars, rlmVars, tlVars, agVars, tgVars, extWrites>>

\* the update renumbers the row it marks
MarkedRows_reindex(id, agent, snapshot) ==
    {IF r.id = id /\ r.agent_name = agent
     THEN [r EXCEPT !.needs_handling = "false", !.index = 0] ELSE r : r \in rows}

\* the update writes the opposite of the flag the row has
MarkedRows_flip(id, agent, snapshot) ==
    {IF r.id = id /\ r.agent_name = agent
     THEN [r EXCEPT !.needs_handling = IF @ = "false" THEN "true" ELSE "false"]
     ELSE r : r \in rows}

\* supabase_client.mark_thought_handled: update ... eq id, eq agent_name
MarkedRows(id, agent, snapshot) ==
    {IF r.id = id /\ r.agent_name = agent
     THEN [r EXCEPT !.needs_handling = "false"] ELSE r : r \in rows}

\* handle_thought line 97: await mark_thought_handled(...)
HandleMark(t) ==
    /\ tasks[t].pc = "mark"
    /\ loopOwner = t
    /\ LET th == tasks[t].th
       IN  \E ok \in BOOLEAN :
             IF ok
             THEN /\ rows' = MarkedRows(th.id, AGENT, th)
                  /\ feed' = feed \cup Events(rows' \ rows)
                  /\ fx' = Bump(th.id, "mark")
                  /\ tasks' = [tasks EXCEPT ![t].pc = "fetch"]
                  /\ UNCHANGED loopOwner
             ELSE /\ tasks' = [tasks EXCEPT ![t] = DoneTask]
                  /\ loopOwner' = 0
                  /\ UNCHANGED <<rows, feed, fx>>
    /\ UNCHANGED <<nsVars, subVars, apiVars, hbVars, rlmVars, nextId, lastWrite, midExact, agVars, tgVars, extWrites, handled>>

\* supabase_client.get_recent_thoughts: rows of the agent with index <= up_to
get_recent_thoughts(rs, agent, up_to_index) ==
    {r \in rs : r.agent_name = agent /\ r.index <= up_to_index}

\* handle_thought lines 100-106: the context window; return if empty
HandleFetch(t) ==
    /\ tasks[t].pc = "fetch"
    /\ loopOwner = t
    /\ \E ok \in BOOLEAN :
         IF ok /\ get_recent_thoughts(rows, AGENT, tasks[t].th.index) # {}
         THEN /\ tasks' = [tasks EXCEPT ![t].pc = "llm"]
              /\ UNCHANGED loopOwner
         ELSE /\ tasks' = [tasks EXCEPT ![t] = DoneTask]
              /\ loopOwner' = 0
    /\ UNCHANGED <<nsVars, subVars, apiVars, hbVars, rlmVars, tlVars, agVars, tgVars, extWrites, feed, handled, fx>>

\* handle_thought lines 123-140: llm.generate_action, then for a tool call
\* tools.execute_tool, which returns at once for an unknown name and
\* suspends on the tool's own awaits otherwise
HandleGenerate(t) ==
    /\ tasks[t].pc = "llm"
    /\ loopOwner = t
    /\ LET id == tasks[t].th.id
       IN  \E out \in {"text", "tool_use", "tool_unknown", "raise"} :
             /\ fx' = IF out \in {"tool_use", "tool_unknown"}
                       THEN [fx EXCEPT ![id].gen = @ + 1, ![id].tool = @ + 1]
                       ELSE Bump(id, "gen")
             /\ CASE out = "text" ->
                       /\ tasks' = [tasks EXCEPT ![t].pc = "txt_read"]
                       /\ UNCHANGED loopOwner
                  [] out = "tool_use" ->
                       /\ tasks' = [tasks EXCEPT ![t].pc = "tool"]
                       /\ loopOwner' = 0
                  [] out = "tool_unknown" ->
                       /\ tasks' = [tasks EXCEPT ![t].pc = "obs_read"]
                       /\ UNCHANGED loopOwner
                  [] out = "raise" ->
                       /\ tasks' = [tasks EXCEPT ![t] = DoneTask]
                       /\ loopOwner' = 0
    /\ UNCHANGED <<nsVars, subVars, apiVars, hbVars, rlmVars, tlVars, agVars, tgVars, extWrites, feed, handled>>

\* tools.execute_tool lines 56-61: the tool returns or raises; either way
\* execute_tool returns an observation text
ToolReturns(t) ==
    /\ tasks[t].pc = "tool"
    /\ loopOwner = 0
    /\ tasks' = [tasks EXCEPT ![t].pc = "obs_read"]
    /\ loopOwner' = t
    /\ UNCHANGED <<nsVars, subVars, apiVars, hbVars, rlmVars, tlVars, agVars, tgVars, extWrites, feed, handled, fx>>

\* handle_thought line 141 -> add_thought(..., insert_after_index):
\* compute_insert_index
HandleObsIndex(t) ==
    /\ tasks[t].pc = "obs_read"
    /\ loopOwner = t
    /\ \E ok \in BOOLEAN :
         IF ok
         THEN /\ tasks' = [tasks EXCEPT ![t].pc = "obs_write",
                               ![t].idx = compute_insert_index(rows, AGENT,
                                                               tasks[t].th.index)]
              /\ midExact' = (midExact /\ ExactMid(rows, AGENT, tasks[t].th.index))
              /\ UNCHANGED loopOwner
         ELSE /\ tasks' = [tasks EXCEPT ![t] = DoneTask]
              /\ loopOwner' = 0
              /\ UNCHANGED midExact
    /\ UNCHANGED <<nsVars, subVars, apiVars, hbVars, rlmVars, rows, nextId, lastWrite, agVars, tgVars, extWrites, feed,
                   handled, fx>>

\* ... and the insert of the observation at the computed index
HandleObsInsert(t) ==
    /\ tasks[t].pc = "obs_write"
    /\ loopOwner = t
    /\ \E ok \in BOOLEAN :
         IF ok
         THEN /\ InsertRow(EnvRow(nextId, AGENT, Observation, tasks[t].idx),
                           "insert", tasks[t].th.index)
              /\ fx' = Bump(tasks[t].th.id, "result")
         ELSE UNCHANGED <<rows, nextId, feed, lastWrite, fx>>
    /\ tasks' = [tasks EXCEPT ![t] = DoneTask]
    /\ loopOwner' = 0
    /\ UNCHANGED <<nsVars, subVars, apiVars, hbVars, rlmVars, midExact, agVars, tgVars, extWrites, handled>>

\* handle_thought line 131 -> add_thought(agent_name, content): the
\* max-index query
HandleTextMax(t) ==
    /\ tasks[t].pc = "txt_read"
    /\ loopOwner = t
    /\ \E ok \in BOOLEAN :
         IF ok
         THEN /\ tasks' = [tasks EXCEPT ![t].pc = "txt_write",
                               ![t].idx = append_index(rows, AGENT)]
              /\ UNCHANGED loopOwner
         ELSE /\ tasks' = [tasks EXCEPT ![t] = DoneTask]
              /\ loopOwner' = 0
    /\ UNCHANGED <<nsVars, subVars, apiVars, hbVars, rlmVars, tlVars, agVars, tgVars, extWrites, feed, handled, fx>>

\* bodies the model may answer with as plain text
TextBodies == {ActionSp}

\* ... and the insert of the text thought at max_index + 1.0
HandleTextInsert(t) ==
    /\ tasks[t].pc = "txt_write"
    /\ loopOwner = t
    /\ \E ok \in BOOLEAN :
         IF ok
         THEN /\ \E body \in TextBodies :
                   InsertRow(EnvRow(nextId, AGENT, body, tasks[t].idx), "text",
                             tasks[t].th.index)
              /\ fx' = Bump(tasks[t].th.id, "result")
         ELSE UNCHANGED <<rows, nextId, feed, lastWrite, fx>>
    /\ tasks' = [tasks EXCEPT ![t] = DoneTask]
    /\ loopOwner' = 0
    /\ UNCHANGED <<nsVars, subVars, apiVars, hbVars, rlmVars, midExact, agVars, tgVars, extWrites, handled>>

HandleThought(t) ==
    \/ HandleMark(t)
    \/ HandleFetch(t)
    \/ HandleGenerate(t)
    \/ ToolReturns(t)
    \/ HandleObsIndex(t)
    \/ HandleObsInsert(t)
    \/ HandleTextMax(t)
    \/ HandleTextInsert(t)

Next ==
    \/ AgentReadMax
    \/ AgentAddThought
    \/ TelegramReadMax
    \/ TelegramInsert
    \/ OnThought
    \/ \E t \in 1..MaxTasks : HandleThought(t)

Spec == Init /\ [][Next]_vars

(***************************************************************************)
(* Claims on Spec                                                          *)
(***************************************************************************)
\* C1: for every thought id, over all deliveries of it to the env process,
\* at most one delivery passes the filter and the dedup check, and the
\* handled-mark write, the generate_action call, the execute_tool call and
\* the result thought each happen at most once.
C1_HandledAtMostOnce ==
    \A i \in 1..MaxId :
        /\ fx[i].pass <= 1
        /\ fx[i].mark <= 1
        /\ fx[i].gen <= 1
        /\ fx[i].tool <= 1
        /\ fx[i].result <= 1
        /\ Cardinality({t \in 1..MaxTasks : tasks[t].th.id = i}) <= 1

\* C1 witness: a thought is delivered again while the task of its first
\* delivery is suspended in the tool call, and the delivery is discarded.
C1_Witness ==
    \E t \in 1..MaxTasks :
        /\ tasks[t].pc = "tool"
        /\ fx[tasks[t].th.id].drop = 1
        /\ fx[tasks[t].th.id].mark = 1

\* C2: under any interleaving of the agent's append, the env's appends and
\* the env's insert-after, no two rows of one agent have the same index.
C2_NoSharedIndex ==
    \A r1, r2 \in rows :
        r1.id # r2.id /\ r1.agent_name = r2.agent_name => r1.index # r2.index

(***************************************************************************)
(* The agent's generation loop: run_rlm_loop and the REPL it drives.       *)
(* A text is a sequence of tokens: "OPEN" is the three backticks followed  *)
(* by repl, "FENCE" three backticks, "NL" a newline, " " a blank, "t" a    *)
(* word of prose.  Inside a block: "print" writes a line to stdout,        *)
(* "FINAL_a" and "FINAL_b" call FINAL, "raise" raises an Exception, "exit" *)
(* raises SystemExit, "spin" is while True: pass.                          *)
(***************************************************************************)
IsSpace(t) == t \in {" ", "NL"}

SpaceRun(text) ==
    IF \E i \in 1..Len(text) : ~IsSpace(text[i])
    THEN SetMin({i \in 1..Len(text) : ~IsSpace(text[i])}) - 1
    ELSE Len(text)

\* re.findall(r"```repl\s*\n(.*?)```", text, re.DOTALL)
RECURSIVE extract_repl_blocks(_)
extract_repl_blocks(text) ==
    IF text = <<>> THEN <<>>
    ELSE IF Head(text) # "OPEN" THEN extract_repl_blocks(Tail(text))
    ELSE LET rest == Tail(text)
             nls  == {i \in 1..SpaceRun(rest) : rest[i] = "NL"}
         IN  IF nls = {} THEN extract_repl_blocks(rest)
             ELSE LET start   == SetMax(nls) + 1
                      closers == {j \in start..Len(rest) :
                                     rest[j] \in {"FENCE", "OPEN"}}
                  IN  IF closers = {} THEN extract_repl_blocks(rest)
                      ELSE <<SubSeq(rest, start, SetMin(closers) - 1)>>
                           \o extract_repl_blocks(
                                  SubSeq(rest, SetMin(closers) + 1, Len(rest)))

\* "\n".join(parts)
RECURSIVE Join(_)
Join(parts) ==
    IF parts = <<>> THEN <<>>
    ELSE IF Len(parts) = 1 THEN parts[1]
    ELSE parts[1] \o <<"NL">> \o Join(Tail(parts))

Traceback == <<"Traceback", "NL">>
TimeoutDiag == <<"NL", "[ERROR] REPL block timed out", "NL">>
NoOutput == <<"(no output)">>

\* the code of the blocks a model reply may carry
BlockBodies ==
    { <<>>, <<"print">>, <<"raise">>,
      <<"FINAL_a">>, <<"print", "FINAL_a", "NL", "print">>, <<"FINAL_a", "raise">>,
      <<"FINAL_a", "FINAL_b">>, <<"exit">>, <<"FINAL_a", "exit">>,
      <<"spin">>, <<"print", "spin">> }

SecondBodies == { <<"print">>, <<"FINAL_b">> }

Fenced(code) == <<"OPEN", "NL">> \o code \o <<"FENCE">>

\* replies without a block: prose, prose in whitespace, an opener with no
\* newline after it, an opener that is never closed
NoBlockReplies ==
    { <<"t">>, <<" ", "t", "NL">>, <<"NL">>,
      <<"OPEN", " ", "print", "FENCE">>, <<"t", "OPEN", "NL", "print">> }

\* response.content[0].text of a model call
Replies ==
    NoBlockReplies
    \cup { <<"t", "NL">> \o Fenced(b) \o <<"NL">> : b \in BlockBodies }
    \cup { Fenced(b1) \o <<"NL">> \o Fenced(b2) :
               b1 \in BlockBodies, b2 \in SecondBodies }

Message(role, content) == [role |-> role, content |-> content]

RlmInit ==
    /\ rows = {}
    /\ nextId = 1
    /\ lastWrite = NoWrite
    /\ midExact = TRUE
    /\ ProcIdle
    /\ max_iterations \in 0..MaxIterations
    /\ rlmPc = "call"
    /\ calls = 0
    /\ messages = <<Message("user", <<"Generate the next thought.">>)>>
    /\ blocks = <<>>
    /\ blk = 0
    /\ all_output = <<>>
    /\ final = [is_set |-> FALSE, value |-> NoValue]
    /\ result = NoValue
    /\ replPc = "idle"
    /\ wkSt = "none"
    /\ wkPos = 0
    /\ buf = <<>>
    /\ HbIdle
    /\ ApiIdle
    /\ NsIdle
    /\ SubIdle

\* a for statement that runs one iteration too many
range_has_next_off(c, m) == c <= m

\* the loop's for statement: another iteration starts
range_has_next(c, m) == c < m

replVars == <<replPc, wkSt, wkPos, buf>>

\* one iteration up to the first block: the model call, the reply appended,
\* the blocks extracted, the return when there is none
RlmModelCall ==
    /\ rlmPc = "call"
    /\ range_has_next(calls, max_iterations)
    /\ \/ /\ rlmPc' = "raised"
          /\ UNCHANGED <<calls, messages, blocks, blk, all_output, result>>
       \/ \E assistant_text \in Replies :
             /\ calls' = calls + 1
             /\ messages' = Append(messages, Message("assistant", assistant_text))
             /\ blocks' = extract_repl_blocks(assistant_text)
             /\ all_output' = <<>>
             /\ IF blocks' = <<>>
                THEN /\ rlmPc' = "returned"
                     /\ result' = Strip(assistant_text)
                     /\ blk' = 0
                ELSE /\ rlmPc' = "exec"
                     /\ blk' = 1
                     /\ UNCHANGED result
    /\ UNCHANGED <<nsVars, subVars, apiVars, hbVars, max_iterations, final, replVars, tlVars, agVars, tgVars,
                   extWrites, envVars>>

\* the iterations are used up: the fallback return
RlmExhausted ==
    /\ rlmPc = "call"
    /\ ~range_has_next(calls, max_iterations)
    /\ rlmPc' = "returned"
    /\ result' = IF Len(messages) >= 2
                 THEN Strip(messages[Len(messages) - 1].content)
                 ELSE <<>>
    /\ UNCHANGED <<nsVars, subVars, apiVars, hbVars, max_iterations, calls, messages, blocks, blk, all_output,
                   final, replVars, tlVars, agVars, tgVars, extWrites, envVars>>

loopVars == <<max_iterations, rlmPc, calls, messages, blocks, blk, all_output,
              result>>

\* execute_repl_block(code, namespace) is called for block blk: buf is
\* created, _run is submitted to the pool, the caller waits in future.result
ReplSubmit ==
    /\ rlmPc = "exec"
    /\ replPc = "idle"
    /\ replPc' = "wait"
    /\ wkSt' = "run"
    /\ wkPos' = 1
    /\ buf' = <<>>
    /\ UNCHANGED <<nsVars, subVars, apiVars, hbVars, loopVars, final, tlVars, agVars, tgVars, extWrites, envVars>>

\* FINAL(text): final.set(str(text))
FinalValue(tok) == IF tok = "FINAL_a" THEN <<"a">> ELSE <<"b">>

\* the worker thread runs one statement of exec(code, namespace) under
\* redirect_stdout(buf); "spin" never completes, so it has no step
WorkerStep ==
    /\ wkSt = "run"
    /\ LET code == blocks[blk]
       IN  IF wkPos > Len(code)
           THEN /\ wkSt' = "done"
                /\ UNCHANGED <<wkPos, buf, final>>
           ELSE LET tok == code[wkPos]
                IN  /\ tok # "spin"
                    /\ wkSt' = CASE tok = "raise" -> "raised"
                                 [] tok = "exit"  -> "exited"
                                 [] OTHER         -> "run"
                    /\ wkPos' = IF tok \in {"raise", "exit"} THEN wkPos
                                ELSE wkPos + 1
                    /\ buf' = IF tok = "print" THEN buf \o <<"out", "NL">>
                              ELSE buf
                    /\ final' = IF tok \in {"FINAL_a", "FINAL_b"}
                                THEN [is_set |-> TRUE, value |-> FinalValue(tok)]
                                ELSE final
    /\ UNCHANGED <<nsVars, subVars, apiVars, hbVars, loopVars, replPc, tlVars, agVars, tgVars, extWrites, envVars>>

\* future.result(timeout=REPL_TIMEOUT_SECONDS) raises FuturesTimeoutError
\* while the worker is still running; the exception leaves the with block,
\* whose exit is pool.shutdown(wait=True)
ReplTimeout ==
    /\ replPc = "wait"
    /\ wkSt = "run"
    /\ replPc' = "shutdown"
    /\ UNCHANGED <<nsVars, subVars, apiVars, hbVars, loopVars, final, wkSt, wkPos, buf, tlVars, agVars, tgVars,
                   extWrites, envVars>>

\* the worker has finished, so shutdown(wait=True) returns: the handler of
\* FuturesTimeoutError writes the diagnostic and buf.getvalue() is returned
shutdown_returns(st) == st # "run"

ReplShutdown ==
    /\ replPc = "shutdown"
    /\ shutdown_returns(wkSt)
    /\ replPc' = "returned"
    /\ buf' = buf \o TimeoutDiag
    /\ UNCHANGED <<nsVars, subVars, apiVars, hbVars, loopVars, final, wkSt, wkPos, tlVars, agVars, tgVars,
                   extWrites, envVars>>

\* which of the worker's outcomes the except Exception clause handles
CaughtByExcept(st) == st = "raised"

\* future.result returns or re-raises what the worker raised: an Exception
\* becomes the traceback text, anything else leaves execute_repl_block and,
\* with nothing to catch it, run_rlm_loop
ReplResult ==
    /\ replPc = "wait"
    /\ wkSt \in {"done", "raised", "exited"}
    /\ IF wkSt = "done"
       THEN replPc' = "returned" /\ UNCHANGED <<buf, rlmPc>>
       ELSE IF CaughtByExcept(wkSt)
       THEN replPc' = "returned" /\ buf' = buf \o Traceback /\ UNCHANGED rlmPc
       ELSE replPc' = "raised" /\ rlmPc' = "raised" /\ UNCHANGED buf
    /\ UNCHANGED <<nsVars, subVars, apiVars, hbVars, max_iterations, calls, messages, blocks, blk, all_output,
                   result, final, wkSt, wkPos, tlVars, agVars, tgVars,
                   extWrites, envVars>>

\* the loop's test of the termination signal after a block
final_checked(f) == f.is_set

\* the loop after execute_repl_block returned: the output is kept, the
\* signal is tested, the next block or the next iteration follows
RlmAfterBlock ==
    /\ rlmPc = "exec"
    /\ replPc = "returned"
    /\ all_output' = IF buf # <<>> THEN Append(all_output, buf) ELSE all_output
    /\ IF final_checked(final)
       THEN /\ rlmPc' = "returned"
            /\ result' = final.value
            /\ UNCHANGED <<blk, messages>>
       ELSE IF blk < Len(blocks)
       THEN /\ blk' = blk + 1
            /\ UNCHANGED <<rlmPc, result, messages>>
       ELSE /\ rlmPc' = "call"
            /\ messages' = Append(messages,
                   Message("user", <<"REPL output:", "NL">>
                       \o (IF all_output' # <<>> THEN Join(all_output')
                           ELSE NoOutput)))
            /\ UNCHANGED <<blk, result>>
    /\ replPc' = "idle"
    /\ wkSt' = "none"
    /\ wkPos' = 0
    /\ buf' = <<>>
    /\ UNCHANGED <<nsVars, subVars, apiVars, hbVars, max_iterations, calls, blocks, final, tlVars, agVars, tgVars,
                   extWrites, envVars>>

RlmNext ==
    \/ RlmModelCall
    \/ RlmExhausted
    \/ ReplSubmit
    \/ WorkerStep
    \/ ReplTimeout
    \/ ReplShutdown
    \/ ReplResult
    \/ RlmAfterBlock

SpecRlm == RlmInit /\ [][RlmNext]_vars

\* the timer of future.result fires, threads are scheduled, calls return
SpecRlmFair == SpecRlm /\ WF_vars(RlmNext)

(***************************************************************************)
(* Claims on SpecRlm and SpecRlmFair                                       *)
(***************************************************************************)
\* the worker is inside code that never terminates
Spinning ==
    /\ wkSt = "run"
    /\ wkPos <= Len(blocks[blk])
    /\ blocks[blk][wkPos] = "spin"

EndsWith(text, suffix) ==
    /\ Len(text) >= Len(suffix)
    /\ SubSeq(text, Len(text) - Len(suffix) + 1, Len(text)) = suffix

\* C4: whenever execute_repl_block is running code that never terminates, it
\* eventually returns to its caller, normally, with the output captured so
\* far followed by the timeout diagnostic.
C4_SpinningBlockReturns ==
    Spinning ~> (replPc = "returned" /\ EndsWith(buf, TimeoutDiag))

\* C5: execute_repl_block never raises to its caller, however the executed
\* block ends.
C5_NeverRaises == replPc # "raised"

\* C6: once the execution of a block is over and the termination signal is
\* set, the loop has returned the signal's value: it executes no later block
\* of the reply and makes no further model call.
C6_FinalTakesPrecedence ==
    (final.is_set /\ replPc \in {"idle", "raised"}) =>
        /\ rlmPc = "returned"
        /\ result = final.value

\* r is t without its leading and trailing whitespace
TrimOf(r, t) ==
    /\ \E i, j \in 0..Len(t) :
          /\ i + j <= Len(t)
          /\ r = SubSeq(t, i + 1, Len(t) - j)
          /\ \A k \in 1..i : IsSpace(t[k])
          /\ \A k \in (Len(t) - j + 1)..Len(t) : IsSpace(t[k])
    /\ r # <<>> => ~IsSpace(r[1]) /\ ~IsSpace(r[Len(r)])

AssistantTurns == {i \in 1..Len(messages) : messages[i].role = "assistant"}

\* C7: a reply without a fenced repl block is the last message of the loop:
\* the loop has returned that reply trimmed, no code of it runs and no model
\* call follows it, whichever iteration it came in.
C7_NoBlockReplyReturned ==
    \A i \in AssistantTurns :
        extract_repl_blocks(messages[i].content) = <<>> =>
            /\ i = Len(messages)
            /\ rlmPc = "returned"
            /\ TrimOf(result, messages[i].content)
            /\ replPc = "idle" /\ wkSt = "none"
            /\ calls = Cardinality(AssistantTurns)

C7_Witness ==
    /\ rlmPc = "returned"
    /\ calls = 2
    /\ messages[Len(messages)].role = "assistant"
    /\ extract_repl_blocks(messages[Len(messages)].content) = <<>>
    /\ result # messages[Len(messages)].content

\* every reply so far carried a block and the signal was never set
AllRepliesHadBlocks ==
    /\ ~final.is_set
    /\ \A i \in AssistantTurns : extract_repl_blocks(messages[i].content) # <<>>

\* the loop is over, or a model call or a block execution did not return
RlmEnded ==
    \/ rlmPc \in {"returned", "raised"}
    \/ replPc = "shutdown" /\ Spinning

\* C8: the loop makes at most max_iterations model calls; it ends unless a
\* block execution never returns; and when every reply carried a block and
\* the signal was never set, it has used all its iterations and returns the
\* last assistant reply trimmed.
C8_BoundedWithFallback ==
    /\ [](calls <= max_iterations)
    /\ []((rlmPc = "returned" /\ AllRepliesHadBlocks) =>
            /\ calls = max_iterations
            /\ IF AssistantTurns = {} THEN result = <<>>
               ELSE TrimOf(result, messages[SetMax(AssistantTurns)].content))
    /\ <>RlmEnded

C8_Witness ==
    /\ rlmPc = "returned"
    /\ AllRepliesHadBlocks
    /\ calls = 2
    /\ result # messages[SetMax(AssistantTurns)].content

(***************************************************************************)
(* The env daemon's realtime heartbeat.  A handle is a channel returned by *)
(* subscribe_to_thoughts; every handle's callback is on_thought.           *)
(***************************************************************************)
otherVars == <<tlVars, agVars, tgVars, extWrites, envVars, rlmVars, apiVars,
              nsVars, subVars>>

HbInit ==
    /\ rows = {}
    /\ nextId = 1
    /\ lastWrite = NoWrite
    /\ midExact = TRUE
    /\ ProcIdle
    /\ RlmIdle
    /\ ApiIdle
    /\ NsIdle
    /\ SubIdle
    /\ hbPc = "sleep"
    /\ cycle = 0
    /\ channel = 1
    /\ chan = [h \in Handles |-> IF h = 1 THEN "live" ELSE "none"]
    /\ heartbeat_event = FALSE
    /\ probe_id = 0
    /\ probes = {}
    /\ pending = {}
    /\ foreign = 0
    /\ curProbe = 0
    /\ echoAt = "never"
    /\ before = 0

\* the change events of an inserted row: one for every subscription that
\* is delivering (the subscription is to the whole table)
InsertEvents(id) == {[ch |-> h, id |-> id] : h \in {g \in Handles : chan[g] = "live"}}

\* a subscription stops delivering without an error: the events it held
\* are never delivered
ChannelDies ==
    /\ \E h \in Handles :
          /\ chan[h] = "live"
          /\ chan' = [chan EXCEPT ![h] = "dead"]
          /\ pending' = {e \in pending : e.ch # h}
    /\ UNCHANGED <<hbPc, cycle, channel, heartbeat_event, probe_id, probes,
                   foreign, curProbe, echoAt, before, otherVars>>

\* the heartbeat of the env daemon of another agent inserts its probe row
ForeignProbe ==
    /\ foreign < MaxForeign
    /\ foreign' = foreign + 1
    /\ pending' = pending \cup InsertEvents(0)
    /\ UNCHANGED <<hbPc, cycle, channel, chan, heartbeat_event, probe_id,
                   probes, curProbe, echoAt, before, otherVars>>

\* a subscription delivers the change event of a probe row: on_change
\* passes the record to on_thought, whose test is on the body alone
\* (startswith("__heartbeat_probe__")): it sets heartbeat_event and returns
OnProbe ==
    /\ \E e \in pending :
          /\ chan[e.ch] = "live"
          /\ pending' = pending \ {e}
          /\ heartbeat_event' = TRUE
          /\ echoAt' = IF e.id # curProbe \/ curProbe = 0 \/ echoAt # "never"
                        \/ hbPc = "sleep"
                       THEN echoAt
                       ELSE IF hbPc # "wait" THEN "late"
                       ELSE IF e.ch = channel THEN "wait" ELSE "stale"
    /\ UNCHANGED <<hbPc, cycle, channel, chan, probe_id, probes, foreign,
                   curProbe, before, otherVars>>

\* what the probe insert can do: return the row, return no data, raise
InsertOutcomes == {"data", "nodata", "raise"}

\* the sleep is over: heartbeat_event.clear(), probe_id = None, the probe
\* row is inserted, and the cycle reaches the wait or, after an exception,
\* the finally clause
HbProbe ==
    /\ hbPc = "sleep"
    /\ cycle < MaxCycles
    /\ \E o \in InsertOutcomes :
          LET id == cycle + 1
          IN  /\ heartbeat_event' = FALSE
              /\ IF o = "raise"
                 THEN /\ curProbe' = 0
                      /\ UNCHANGED <<probes, pending>>
                 ELSE /\ curProbe' = id
                      /\ probes' = probes \cup {id}
                      /\ pending' = pending \cup InsertEvents(id)
              /\ probe_id' = IF o = "data" THEN id ELSE 0
              /\ hbPc' = IF o = "raise" THEN "finally" ELSE "wait"
    /\ echoAt' = "never"
    /\ before' = channel
    /\ UNCHANGED <<cycle, channel, chan, foreign, otherVars>>

\* wait_for(heartbeat_event.wait(), HEARTBEAT_TIMEOUT) returns
HbEchoSeen ==
    /\ hbPc = "wait"
    /\ heartbeat_event
    /\ hbPc' = "finally"
    /\ UNCHANGED <<cycle, channel, chan, heartbeat_event, probe_id, probes,
                   pending, foreign, curProbe, echoAt, before, otherVars>>

\* wait_for raises asyncio.TimeoutError
HbTimeout ==
    /\ hbPc = "wait"
    /\ ~heartbeat_event
    /\ hbPc' = "unsub"
    /\ UNCHANGED <<cycle, channel, chan, heartbeat_event, probe_id, probes,
                   pending, foreign, curProbe, echoAt, before, otherVars>>

\* await channel.unsubscribe(): it closes the subscription, or it raises
\* and the exception is passed over
HbUnsubscribe ==
    /\ hbPc = "unsub"
    /\ \/ /\ chan' = [chan EXCEPT ![channel] = "closed"]
          /\ pending' = {e \in pending : e.ch # channel}
       \/ UNCHANGED <<chan, pending>>
    /\ hbPc' = "sub"
    /\ UNCHANGED <<cycle, channel, heartbeat_event, probe_id, probes, foreign,
                   curProbe, echoAt, before, otherVars>>

\* the handle subscribe_to_thoughts returns
NewHandle == SetMin({h \in Handles : chan[h] = "none"})

\* channel = await subscribe_to_thoughts(on_thought): the assignment, or
\* an exception that the outer handler logs
HbSubscribe ==
    /\ hbPc = "sub"
    /\ \/ /\ chan' = [chan EXCEPT ![NewHandle] = "live"]
          /\ channel' = NewHandle
       \/ UNCHANGED <<chan, channel>>
    /\ hbPc' = "finally"
    /\ UNCHANGED <<cycle, heartbeat_event, probe_id, probes, pending, foreign,
                   curProbe, echoAt, before, otherVars>>

\* the finally clause: if probe_id, the row is deleted, or the delete
\* raises and the exception is passed over; the loop goes back to its sleep
HbFinally ==
    /\ hbPc = "finally"
    /\ IF probe_id # 0
       THEN \/ probes' = probes \ {probe_id}
            \/ UNCHANGED probes
       ELSE UNCHANGED probes
    /\ hbPc' = "sleep"
    /\ cycle' = cycle + 1
    /\ UNCHANGED <<channel, chan, heartbeat_event, probe_id, pending, foreign,
                   curProbe, echoAt, before, otherVars>>

HbNext ==
    \/ ChannelDies
    \/ ForeignProbe
    \/ OnProbe
    \/ HbProbe
    \/ HbEchoSeen
    \/ HbTimeout
    \/ HbUnsubscribe
    \/ HbSubscribe
    \/ HbFinally

SpecHb == HbInit /\ [][HbNext]_vars

(***************************************************************************)
(* Claims on SpecHb                                                        *)
(***************************************************************************)
\* a heartbeat cycle has ended
CycleEnded == hbPc = "sleep" /\ cycle >= 1

\* the event of the cycle's probe row has not reached the callback and no
\* delivering subscription holds it any more
EchoMissed ==
    /\ curProbe # 0
    /\ echoAt = "never"
    /\ ~\E e \in pending : e.id = curProbe /\ chan[e.ch] = "live"

\* C9: when a heartbeat cycle has ended whose probe's event was not
\* delivered to the callback, the channel the cycle started with is
\* unsubscribed and the handle is a newly created subscription; when the
\* event arrived during the wait, the handle is the one the cycle started
\* with.
C9_ResubscribedOnSilence ==
    CycleEnded =>
        /\ EchoMissed =>
              /\ chan[before] = "closed"
              /\ channel # before
              /\ chan[channel] \in {"live", "dead"}
        /\ echoAt \in {"wait", "stale"} => channel = before

\* C10: when a heartbeat cycle has ended, no probe row this daemon inserted
\* is left in the table, so none exists when the next cycle inserts its own.
C10_NoProbeRowLeft == CycleEnded => probes = {}

\* C11: the wait of a heartbeat cycle is satisfied only by the event of the
\* probe row the cycle inserted, delivered through the installed
\* subscription: not by an earlier cycle's probe, another daemon's probe or
\* a delivery through a stale channel.
C11_OnlyOwnEcho ==
    (hbPc = "wait" /\ heartbeat_event) => echoAt = "wait"

(***************************************************************************)
(* Further claims on Spec                                                  *)
(***************************************************************************)
\* the handle_thought task of thought i is over
TaskOver(i) == i \in handled /\ \A t \in 1..MaxTasks : tasks[t].th.id # i

\* C12: when the task of a first delivery is over, the dispatcher has
\* written exactly one thought on its behalf, whatever the capability layer
\* did.
C12_OneResultPerAction ==
    \A i \in 1..MaxId : (TaskOver(i) /\ fx[i].mark = 1) => fx[i].result = 1

\* C13: the thought the dispatcher writes for the action at index ref, as a
\* tool result or as a text result, has an index greater than ref and
\* smaller than every index of the agent that is greater than ref when it
\* is written.
C13_ResultSortsAfterAction ==
    lastWrite.kind \in {"insert", "text"} =>
        /\ lastWrite.ref < lastWrite.index
        /\ \A i \in lastWrite.before : i > lastWrite.ref => lastWrite.index < i

\* the body starts with the prefix action:, compared case-insensitively
HasActionPrefix(b) == StartsWith(Lower(b), <<"action:">>)

\* C14: of the delivered thoughts whose metadata has needs_handling true
\* (the feed holds no other), exactly those whose body starts with action:
\* in any casing pass handle_thought's filter: a thought in the handled set
\* has the prefix, and a thought that was turned away before it was ever
\* handled does not have it.
C14_FilterIsActionPrefix ==
    \A r \in rows :
        /\ r.id \in handled => HasActionPrefix(r.body)
        /\ (fx[r.id].drop = 1 /\ r.id \notin handled) => ~HasActionPrefix(r.body)

\* positions of a handle_thought task from the generate_action call on
AtCapability == {"llm", "tool", "obs_read", "obs_write", "txt_read", "txt_write"}

\* C15: a task that has reached the generate_action call, and every thought
\* for which generate_action or execute_tool was called, has had its
\* handled-mark write issued.
C15_MarkBeforeCapability ==
    /\ \A t \in 1..MaxTasks :
          tasks[t].pc \in AtCapability => fx[tasks[t].th.id].mark = 1
    /\ \A i \in 1..MaxId : (fx[i].gen >= 1 \/ fx[i].tool >= 1) => fx[i].mark = 1

\* C15 witness: a tool was invoked for a thought whose row already has
\* needs_handling false.
C15_Witness ==
    \E r \in rows :
        /\ fx[r.id].gen = 1 /\ fx[r.id].tool = 1 /\ fx[r.id].mark = 1
        /\ r.needs_handling = "false"

(***************************************************************************)
(* SpecProbe: appends to one agent's timeline, executed one after another, *)
(* while the heartbeat inserts and deletes its probe rows in the same      *)
(* table.                                                                  *)
(***************************************************************************)
\* the row the heartbeat inserts: agent_name, the sentinel body, index -1
ProbeRow(id, agent) == EnvRow(id, agent, ProbeBody, 0 - Unit)

TableProbeInsert ==
    /\ nextId <= MaxRows
    /\ rows' = rows \cup {ProbeRow(nextId, AGENT)}
    /\ nextId' = nextId + 1
    /\ lastWrite' = [kind |-> "probe", ref |-> 0, index |-> 0 - Unit,
                     before |-> IndicesOf(rows, AGENT),
                     prev |-> Earlier(lastWrite)]
    /\ UNCHANGED <<nsVars, subVars, apiVars, hbVars, rlmVars, midExact, agVars, tgVars, extWrites, envVars>>

\* the finally clause: delete ... eq id
TableProbeDelete ==
    /\ \E r \in rows :
          /\ r.body = ProbeBody
          /\ rows' = rows \ {r}
    /\ UNCHANGED <<nsVars, subVars, apiVars, hbVars, rlmVars, nextId, lastWrite, midExact, agVars, tgVars,
                   extWrites, envVars>>

ProbeNext ==
    \/ SeqAppend
    \/ SeqAgentAppend
    \/ TableProbeInsert
    \/ TableProbeDelete

SpecProbe == SeqInit /\ [][ProbeNext]_vars

\* the agent's thoughts: its rows that are not probe rows
Thoughts == {r \in rows : r.agent_name = AGENT /\ r.body # ProbeBody}

\* C16: N thoughts appended to an agent that had none have the indices
\* 1.0, 2.0, ..., N.0, whether or not a probe row of the agent was in the
\* table at the time of an append.
C16_AppendsCountFromOne ==
    {r.index : r \in Thoughts} = {k * Unit : k \in 1..Cardinality(Thoughts)}

(***************************************************************************)
(* Further claims on SpecSeq                                               *)
(***************************************************************************)
\* the agent's indices greater than the reference of the last insertion,
\* at the time of the insertion
GreaterThanRef == {i \in lastWrite.before : i > lastWrite.ref}

\* the midpoint of the last insertion was exactly representable
LastMidExact == GreaterThanRef = {} \/ (lastWrite.ref + SetMin(GreaterThanRef)) % 2 = 0

\* the value compute_insert_index is to return for the last insertion:
\* r + 1.0, or the midpoint of r and the smallest greater index n
ReturnsMidpoint ==
    IF GreaterThanRef = {} THEN lastWrite.index = lastWrite.ref + Unit
    ELSE 2 * lastWrite.index = lastWrite.ref + SetMin(GreaterThanRef)

\* the result lies strictly between r and n and is no existing index
StrictlyBetween ==
    /\ lastWrite.ref < lastWrite.index
    /\ GreaterThanRef # {} => lastWrite.index < SetMin(GreaterThanRef)
    /\ lastWrite.index \notin lastWrite.before

\* C17 as stated: every call of compute_insert_index returns r + 1.0 or the
\* midpoint (r + n) / 2, and the result is greater than r, less than n and
\* different from every existing index.
C17_MidpointAlwaysBetween ==
    lastWrite.kind = "insert" => (ReturnsMidpoint /\ StrictlyBetween)

\* C17 amended: the same for the calls whose midpoint (r + n) / 2 is
\* exactly representable in the index column's floating-point type.
C17_ExactMidpointBetween ==
    (lastWrite.kind = "insert" /\ LastMidExact) => (ReturnsMidpoint /\ StrictlyBetween)

\* C17 witness: a call with several greater indices whose midpoint is exact
\* and not a whole index.
C17_Witness ==
    /\ lastWrite.kind = "insert"
    /\ LastMidExact
    /\ Cardinality(GreaterThanRef) >= 2
    /\ lastWrite.index % Unit # 0

\* the last two writes were insertions after the same reference index
TwiceAfterSameRef ==
    /\ lastWrite.kind = "insert"
    /\ lastWrite.prev.kind = "insert"
    /\ lastWrite.prev.ref = lastWrite.ref

\* the midpoint of the insertion before the last was exactly representable
PrevMidExact ==
    LET gt == {i \in lastWrite.prev.before : i > lastWrite.prev.ref}
    IN  gt = {} \/ (lastWrite.prev.ref + SetMin(gt)) % 2 = 0

\* r < x2 < x1 for the results x1, x2 of the last two insertions
SecondLandsBetween ==
    /\ lastWrite.ref < lastWrite.index
    /\ lastWrite.index < lastWrite.prev.index

\* C18 as stated: two insertions after the same index r in a row, with no
\* other writer, give x1 then x2 with r < x2 < x1.
C18_SecondAlwaysBetween == TwiceAfterSameRef => SecondLandsBetween

\* C18 amended: the same when the midpoints of both insertions are exactly
\* representable in the index column's floating-point type.
C18_ExactSecondBetween ==
    (TwiceAfterSameRef /\ PrevMidExact /\ LastMidExact) => SecondLandsBetween

\* C18 witness: two exact insertions in a row after a row that had a
\* successor, so that both results are midpoints.
C18_Witness ==
    /\ TwiceAfterSameRef
    /\ PrevMidExact /\ LastMidExact
    /\ \E i \in lastWrite.prev.before : i > lastWrite.ref

\* the write before the last was a midpoint insertion: a greater index existed
PrevWasMidpoint ==
    /\ lastWrite.prev.kind = "insert"
    /\ \E i \in lastWrite.prev.before : i > lastWrite.prev.ref

\* the scenario of the specification: rows at 1.0 and 2.0, insertion after 1.0
ScenarioInsert(w) ==
    /\ w.kind = "insert"
    /\ w.before = {Unit, 2 * Unit}
    /\ w.ref = Unit

\* C19: a midpoint insertion leaves the agent's greatest index unchanged and
\* the append that follows it writes the old greatest index + 1.0; with rows
\* at 1.0 and 2.0 the insertion after 1.0 writes 1.5 and the append 3.0.
C19_MidpointKeepsMax ==
    /\ (lastWrite.kind = "insert" /\ GreaterThanRef # {}) =>
           SetMax(IndicesOf(rows, AGENT)) = SetMax(lastWrite.before)
    /\ (lastWrite.kind = "append" /\ PrevWasMidpoint) =>
           lastWrite.index = SetMax(lastWrite.prev.before) + Unit
    /\ ScenarioInsert(lastWrite) => 2 * lastWrite.index = 3 * Unit
    /\ (lastWrite.kind = "append" /\ ScenarioInsert(lastWrite.prev)) =>
           /\ 2 * lastWrite.prev.index = 3 * Unit
           /\ lastWrite.index = 3 * Unit

\* C19 witness: the append by the env after the insertion of the scenario
C19_Witness ==
    /\ lastWrite.kind = "append"
    /\ ScenarioInsert(lastWrite.prev)
    /\ \E r \in rows : r.index = 3 * Unit /\ r.needs_handling = "None"

(***************************************************************************)
(* SpecWrites: every write the env and the agent make to the thoughts      *)
(* table, one after another: appends, insertions after a row, the          *)
(* mark-handled update and the embedding update.                           *)
(***************************************************************************)
\* main.py line 41
MIN_BODY_LENGTH_FOR_EMBEDDING == 10

\* len() of one token, in characters
TokLen(t) ==
    CASE t \in {"action:", "ACTION:"} -> 7
      [] t = "observation:" -> 12
      [] t = "__heartbeat_probe__" -> 19
      [] OTHER -> 1

\* len(body)
RECURSIVE CharLen(_)
CharLen(b) == IF b = <<>> THEN 0 ELSE TokLen(Head(b)) + CharLen(Tail(b))

Vector == "vector"

\* supabase_client.update_thought_embedding: update embedding ... eq id
EmbeddedRows(id, vector) ==
    {IF r.id = id THEN [r EXCEPT !.embedding = vector] ELSE r : r \in rows}

\* handle_thought up to line 97 on a delivered action thought: the
\* mark-handled update
TableMark ==
    /\ \E r \in rows :
         /\ Actionable(r)
         /\ rows' = MarkedRows(r.id, AGENT, r)
    /\ UNCHANGED <<nsVars, subVars, apiVars, hbVars, rlmVars, nextId, lastWrite, midExact, agVars, tgVars,
                   extWrites, envVars>>

\* embed_thought on a delivered thought: too short a body returns, otherwise
\* the vector is stored
TableEmbed ==
    /\ \E r \in rows :
         /\ r.id # 0
         /\ CharLen(Strip(r.body)) >= MIN_BODY_LENGTH_FOR_EMBEDDING
         /\ rows' = EmbeddedRows(r.id, Vector)
    /\ UNCHANGED <<nsVars, subVars, apiVars, hbVars, rlmVars, nextId, lastWrite, midExact, agVars, tgVars,
                   extWrites, envVars>>

WritesNext ==
    SeqAppend \/ SeqInsertAfter \/ SeqAgentAppend \/ TableMark \/ TableEmbed

SpecWrites == SeqInit /\ [][WritesNext]_vars

\* the row with r's id after the step has r's index, agent_name and body
KeepsIdentity(r) ==
    /\ \E q \in rows' : q.id = r.id
    /\ \A q \in rows' :
         q.id = r.id =>
             /\ q.index = r.index
             /\ q.agent_name = r.agent_name
             /\ q.body = r.body

\* C20: no append, insertion after a row, mark-handled update or embedding
\* update changes the index, id, agent_name or body of a row that already
\* exists: insertion never renumbers.
C20_WritesKeepIdentity == [][\A r \in rows : KeepsIdentity(r)]_vars

\* C20 witness: a marked action row and a row with an embedding, both in the
\* table when a row was inserted at a midpoint.
C20_Witness ==
    /\ lastWrite.kind = "insert"
    /\ GreaterThanRef # {}
    /\ \E a \in rows, o \in rows :
         /\ StartsWith(Lower(a.body), <<"action:", " ">>)
         /\ a.needs_handling = "false"
         /\ o.embedding = Vector
         /\ a.index \in lastWrite.before
         /\ o.index \in lastWrite.before

(***************************************************************************)
(* SpecTool: the dispatcher's tool branch (handle_thought lines 134-143    *)
(* with tools.execute_tool), one call after another on one agent's         *)
(* timeline.  Spec keeps the text of an observation abstract; here it is   *)
(* the text execute_tool builds.                                           *)
(***************************************************************************)
\* the registry after register_all (one of its names) and a name the model
\* may ask for that is not in it
TOOLS == {"searchGoogle"}
ToolNames == TOOLS \cup {"noSuchTool"}

\* what the tool's execute function does when awaited
ToolOutcomes == {"return", "raise"}

UnknownToolText(name) == <<"observation:", " ", "unknown tool", name>>
ToolFailedText(name) == <<"observation:", " ", "tool", name, "failed with error">>

\* no lookup guard and no try/except: the KeyError and the tool's exception
\* leave execute_tool
execute_tool_propagate(name, outcome) ==
    IF name \notin TOOLS
    THEN [raised |-> TRUE, invoked |-> FALSE, text |-> <<>>]
    ELSE IF outcome = "raise"
         THEN [raised |-> TRUE, invoked |-> TRUE, text |-> <<>>]
         ELSE [raised |-> FALSE, invoked |-> TRUE, text |-> Observation]

\* tools.execute_tool: whether it raised, whether the tool's execute
\* function was invoked, the text returned
execute_tool(name, outcome) ==
    IF name \notin TOOLS
    THEN [raised |-> FALSE, invoked |-> FALSE, text |-> UnknownToolText(name)]
    ELSE IF outcome = "raise"
         THEN [raised |-> FALSE, invoked |-> TRUE, text |-> ToolFailedText(name)]
         ELSE [raised |-> FALSE, invoked |-> TRUE, text |-> Observation]

\* handle_thought lines 134-143 for a marked action thought r the model
\* answered with a tool call: execute_tool, then add_thought of what it
\* returned after r's index.  An exception out of execute_tool would leave
\* handle_thought before add_thought.  lastWrite also records the call.
ToolCall ==
    /\ nextId <= MaxRows
    /\ \E r \in rows, name \in ToolNames, outcome \in ToolOutcomes :
         /\ r.agent_name = AGENT
         /\ StartsWith(Lower(r.body), <<"action:", " ">>)
         /\ r.needs_handling = "false"
         /\ r.id \notin handled
         /\ handled' = handled \cup {r.id}
         /\ LET res == execute_tool(name, outcome)
                idx == compute_insert_index(rows, AGENT, r.index)
                call == [name |-> name, outcome |-> outcome]
            IN  IF res.raised
                THEN /\ lastWrite' = [kind |-> "tool_raised", ref |-> r.index,
                                      index |-> 0, before |-> IndicesOf(rows, AGENT),
                                      prev |-> Earlier(lastWrite),
                                      call |-> call, obs |-> res]
                     /\ UNCHANGED <<rows, nextId, midExact>>
                ELSE /\ rows' = rows \cup {EnvRow(nextId, AGENT, res.text, idx)}
                     /\ nextId' = nextId + 1
                     /\ lastWrite' = [kind |-> "tool", ref |-> r.index,
                                      index |-> idx, before |-> IndicesOf(rows, AGENT),
                                      prev |-> Earlier(lastWrite),
                                      call |-> call, obs |-> res]
                     /\ midExact' = (midExact /\ ExactMid(rows, AGENT, r.index))
    /\ UNCHANGED <<nsVars, subVars, apiVars, hbVars, rlmVars, agVars, tgVars, extWrites, feed, tasks,
                   loopOwner, fx>>

ToolNext == SeqAgentAppend \/ TableMark \/ ToolCall

SpecTool == SeqInit /\ [][ToolNext]_vars

\* the last step was a tool call of the dispatcher
ToolCalled == lastWrite.kind \in {"tool", "tool_raised"}

\* the row the dispatcher wrote for the last tool call
ResultRows ==
    {r \in rows : /\ r.id = nextId - 1
                  /\ r.agent_name = AGENT
                  /\ r.index = lastWrite.index
                  /\ r.body = lastWrite.obs.text}

ProcessUp == \A i \in 1..MaxStarts : loops[i].pc \notin {"died", "hung"}

\* the task waits to be run: just created, or in one of its two sleeps
Runnable(i) == loops[i].pc \in {"ready", "sleep", "cooldown"}

\* how a cycle (thought_api lines 148-170) can go:
\*   "thought"  run_rlm_loop returned a text and the datastore calls succeeded
\*   "error"    create_repl_namespace, client.messages.create,
\*              get_max_thought_index or add_thought raised an Exception
\*   "exit"     a repl block raised SystemExit, which execute_repl_block's
\*              except Exception lets through
\*   "hang"     a repl block does not end, and execute_repl_block waits for it
CycleOutcomes == {"thought", "error", "exit", "hang"}

\* texts run_rlm_loop may return to the loop
LoopBodies == {ActionSp, Plain}

\* loop_stop without the cancel: only the flag is flipped
Cancel_none(ls, i) == ls

\* Task.cancel(): CancelledError is thrown into the task when it next runs
Cancel(ls, i) == [ls EXCEPT ![i].must_cancel = TRUE]

\* POST /loop/start
LoopStart ==
    /\ ProcessUp
    /\ IF loop_running
       THEN /\ lastReq' = "already_running"
            /\ UNCHANGED <<loop_running, loop_task, loops>>
       ELSE /\ \E i \in 1..MaxStarts : loops[i].pc = "unborn"
            /\ LET i == SetMin({j \in 1..MaxStarts : loops[j].pc = "unborn"})
               IN  /\ loop_running' = TRUE
                   /\ loops' = [loops EXCEPT ![i].pc = "ready"]
                   /\ loop_task' = i
            /\ lastReq' = "start"
    /\ UNCHANGED <<nsVars, subVars, hbVars, rlmVars, tlVars, agVars, tgVars, extWrites, envVars,
                   delay_ms, slept>>

\* POST /loop/stop
LoopStop ==
    /\ ProcessUp
    /\ loop_running' = FALSE
    /\ loops' = IF loop_task # 0
                THEN [Cancel(loops, loop_task) EXCEPT ![loop_task].stopped = TRUE]
                ELSE loops
    /\ loop_task' = 0
    /\ lastReq' = "stop"
    /\ UNCHANGED <<nsVars, subVars, hbVars, rlmVars, tlVars, agVars, tgVars, extWrites, envVars,
                   delay_ms, slept>>

\* run_loop, one run of the task: the while test, then a cycle up to the
\* sleep it ends with
LoopCycle(i) ==
    /\ ProcessUp
    /\ Runnable(i)
    /\ ~loops[i].must_cancel
    /\ IF ~loop_running
       THEN /\ loops' = [loops EXCEPT ![i].pc = "exited"]
            /\ UNCHANGED tlVars
       ELSE /\ loops[i].cycles < MaxLoopCycles
            /\ \E out \in CycleOutcomes :
                 IF out = "thought"
                 THEN \E b \in LoopBodies :
                        LET idx == get_max_thought_index(rows, AGENT) + Unit
                        IN  /\ rows' = rows \cup {AgentRow(nextId, AGENT, b, idx)}
                            /\ nextId' = nextId + 1
                            /\ lastWrite' = [kind |-> "append", ref |-> 0,
                                             index |-> idx,
                                             before |-> IndicesOf(rows, AGENT),
                                             prev |-> Earlier(lastWrite)]
                            /\ loops' = [loops EXCEPT ![i].pc = "sleep",
                                                      ![i].cycles = @ + 1,
                                                      ![i].persisted = @ + 1,
                                                      ![i].last = out]
                            /\ UNCHANGED midExact
                 ELSE /\ loops' = [loops EXCEPT
                                     ![i].pc = CASE out = "error" -> "cooldown"
                                                 [] out = "exit" -> "died"
                                                 [] out = "hang" -> "hung",
                                     ![i].cycles = @ + 1,
                                     ![i].last = out]
                      /\ UNCHANGED tlVars
    /\ UNCHANGED <<nsVars, subVars, hbVars, rlmVars, agVars, tgVars, extWrites, envVars,
                   loop_running, loop_task, lastReq, delay_ms, slept>>

\* the task is run with a cancellation pending: CancelledError is raised at
\* its await (or before its first step); except Exception does not catch it
LoopCancelled(i) ==
    /\ ProcessUp
    /\ Runnable(i)
    /\ loops[i].must_cancel
    /\ loops' = [loops EXCEPT ![i].pc = "cancelled"]
    /\ UNCHANGED <<nsVars, subVars, hbVars, rlmVars, tlVars, agVars, tgVars, extWrites, envVars,
                   loop_running, loop_task, lastReq, delay_ms, slept>>

LoopNext ==
    \/ LoopStart
    \/ LoopStop
    \/ \E i \in 1..MaxStarts : LoopCycle(i)
    \/ \E i \in 1..MaxStarts : LoopCancelled(i)

SpecLoop == SeqInit /\ [][LoopNext]_vars

\* the event loop runs a task that is ready to run
SpecLoopFair ==
    /\ SpecLoop
    /\ \A i \in 1..MaxStarts : WF_vars(LoopCycle(i)) /\ WF_vars(LoopCancelled(i))

\* task i is the running loop: made, not ended by a stop or a cancel
LoopAlive(i) ==
    /\ loops[i].pc \notin {"unborn", "cancelled", "exited"}
    /\ loop_running
    /\ ~loops[i].must_cancel

\* C22: a cycle in which a step raises is followed by the cooldown with no
\* thought persisted, and while the running flag is true and the task is not
\* cancelled the loop always eventually starts another cycle.
C22_LoopAlwaysStartsAnotherCycle ==
    /\ [](\A i \in 1..MaxStarts :
            loops[i].last = "error" => loops[i].pc \in {"cooldown", "cancelled"})
    /\ \A i \in 1..MaxStarts : \A n \in 0..(MaxLoopCycles - 1) :
         (LoopAlive(i) /\ loops[i].cycles = n)
             ~> (loops[i].cycles > n \/ ~LoopAlive(i))

\* what a completed /loop/stop leaves: flag false, handle cleared, and no
\* handle ever again names a task a stop has cancelled
StopClears ==
    /\ lastReq = "stop" => (~loop_running /\ loop_task = 0)
    /\ \A i \in 1..MaxStarts : loops[i].stopped => loop_task # i
    /\ ~loop_running =>
           \A i \in 1..MaxStarts : Runnable(i) => loops[i].stopped

\* a task a stop has cancelled starts no cycle and persists no thought
StoppedTaskIsQuiet ==
    \A i \in 1..MaxStarts :
        loops[i].stopped =>
            /\ loops'[i].cycles = loops[i].cycles
            /\ loops'[i].persisted = loops[i].persisted
            /\ loops'[i].pc \in {loops[i].pc, "cancelled", "exited"}

\* C23: after a /loop/stop the running flag is false and the task handle
\* cleared, and the cancelled task starts no further cycle and persists no
\* further thought, whatever starts and stops follow.
C23_StoppedLoopStaysStopped == []StopClears /\ [][StoppedTaskIsQuiet]_vars

\* C23 witness: a loop that persisted a thought was stopped and has ended
\* cancelled, a second loop was started, persisted a thought and was stopped.
C23_Witness ==
    /\ lastReq = "stop"
    /\ loops[1].stopped /\ loops[1].pc = "cancelled" /\ loops[1].persisted >= 1
    /\ loops[2].stopped /\ loops[2].persisted >= 1

(***************************************************************************)
(* SpecNs: the namespace of a generation session (repl.py                  *)
(* create_repl_namespace, _FinalResult) and the statements a block         *)
(* executes in it.  final is the _FinalResult cell.                        *)
(***************************************************************************)
\* values a block may pass or bind: a string, an integer, None
VStr == [t |-> "str", v |-> "a"]
VInt == [t |-> "int", v |-> "5"]
VNone == [t |-> "NoneType", v |-> "-"]
Values == {VStr, VInt, VNone}

\* str(value)
Str(val) ==
    CASE val.t = "str" -> <<val.v>>
      [] val.t = "int" -> <<val.v>>
      [] val.t = "NoneType" -> <<"None">>

\* names of the interpreter's built-in set the model follows
AmbientBuiltins ==
    {"open", "__import__", "eval", "exec", "compile", "breakpoint", "exit",
     "quit", "getattr", "len", "SystemExit"}

\* create_repl_namespace lines 137-140
Blocked ==
    {"open", "__import__", "eval", "exec", "compile", "breakpoint", "exit", "quit"}

\* names a block writes into __builtins__ in the model
BlockWrites == {"open", "eval"}

\* names a block passes to FINAL_VAR: the names of the namespace and one
\* that is never bound
AskedNames == VarNames \cup {"z"}

Bound(ns, name) == name \in DOMAIN ns /\ ns[name] # Unbound

\* the lookup replaced by namespace.get(var_name): an unbound name gives None
FINAL_VAR_get(f, ns, var_name) ==
    [final |-> [is_set |-> TRUE,
                value |-> IF Bound(ns, var_name) THEN Str(ns[var_name])
                          ELSE Str(VNone)],
     raised |-> None]

\* _FinalResult.FINAL_VAR
FINAL_VAR(f, ns, var_name) ==
    IF ~Bound(ns, var_name)
    THEN [final |-> f, raised |-> "NameError"]
    ELSE [final |-> [is_set |-> TRUE, value |-> Str(ns[var_name])],
          raised |-> None]

\* _FinalResult.FINAL
FINAL(f, text) == [is_set |-> TRUE, value |-> Str(text)]

\* create_repl_namespace: a new cell, a new namespace, the filtered builtins
NsCreate ==
    /\ final' = [is_set |-> FALSE, value |-> NoValue]
    /\ namespace' = [n \in VarNames |->
                        IF n = "agent_name" THEN [t |-> "str", v |-> AGENT]
                        ELSE Unbound]
    /\ safe_builtins' = AmbientBuiltins \ Blocked
    /\ lastCall' = NoCall
    /\ UNCHANGED <<subVars, apiVars, hbVars, max_iterations, loopVars, replVars,
                   tlVars, agVars, tgVars, extWrites, envVars>>

\* there is a session
InSession == safe_builtins # {}

\* a block executes  name = value
NsAssign ==
    /\ InSession
    /\ \E n \in VarNames \ {"agent_name"}, v \in Values :
         namespace' = [namespace EXCEPT ![n] = v]
    /\ lastCall' = NoCall
    /\ UNCHANGED <<safe_builtins, subVars, apiVars, hbVars, rlmVars, tlVars,
                   agVars, tgVars, extWrites, envVars>>

\* a block executes  FINAL(value)
NsFINAL ==
    /\ InSession
    /\ \E v \in Values :
         /\ final' = FINAL(final, v)
         /\ lastCall' = [fn |-> "FINAL", arg |-> v, raised |-> None,
                         before |-> final]
    /\ UNCHANGED <<namespace, safe_builtins, subVars, apiVars, hbVars,
                   max_iterations, loopVars, replVars, tlVars, agVars, tgVars,
                   extWrites, envVars>>

\* a block executes  FINAL_VAR("name")
NsFINAL_VAR ==
    /\ InSession
    /\ \E n \in AskedNames :
         LET res == FINAL_VAR(final, namespace, n)
         IN  /\ final' = res.final
             /\ lastCall' = [fn |-> "FINAL_VAR", arg |-> [t |-> "name", v |-> n],
                             raised |-> res.raised, before |-> final]
    /\ UNCHANGED <<namespace, safe_builtins, subVars, apiVars, hbVars,
                   max_iterations, loopVars, replVars, tlVars, agVars, tgVars,
                   extWrites, envVars>>

\* a block executes  __builtins__[k] = getattr(print.__self__, k):
\* namespace["__builtins__"] is the dict the block's code sees as
\* __builtins__, and print is bound to the interpreter's own print
NsSetBuiltin ==
    /\ InSession
    /\ \E k \in BlockWrites : safe_builtins' = safe_builtins \cup {k}
    /\ lastCall' = NoCall
    /\ UNCHANGED <<namespace, subVars, apiVars, hbVars, rlmVars, tlVars,
                   agVars, tgVars, extWrites, envVars>>

NsNext == NsCreate \/ NsAssign \/ NsFINAL \/ NsFINAL_VAR \/ NsSetBuiltin

SpecNs == SeqInit /\ [][NsNext]_vars

\* C24: FINAL(text) sets the cell to str(text); FINAL_VAR(name) sets it to
\* the string form of the value bound to name; for an unbound name it fails
\* with a lookup error and leaves the cell as it was, so a cell that was
\* unset stays unset and the loop's test after the block is false.
C24_FinalSetsCell ==
    /\ lastCall.fn = "FINAL" =>
           /\ final = [is_set |-> TRUE, value |-> Str(lastCall.arg)]
           /\ lastCall.raised = None
    /\ (lastCall.fn = "FINAL_VAR" /\ Bound(namespace, lastCall.arg.v)) =>
           /\ final = [is_set |-> TRUE, value |-> Str(namespace[lastCall.arg.v])]
           /\ lastCall.raised = None
    /\ (lastCall.fn = "FINAL_VAR" /\ ~Bound(namespace, lastCall.arg.v)) =>
           /\ lastCall.raised = "NameError"
           /\ final = lastCall.before
           /\ ~lastCall.before.is_set => ~final_checked(final)

\* C24 witness: FINAL_VAR of an unbound name on an unset cell, in a session
\* where another name is bound to a value that is not a string.
C24_Witness ==
    /\ lastCall.fn = "FINAL_VAR"
    /\ ~Bound(namespace, lastCall.arg.v)
    /\ ~final.is_set
    /\ \E n \in VarNames : Bound(namespace, n) /\ namespace[n].t = "int"

\* C25: in every state of a generation session none of open, __import__,
\* eval, exec, compile, breakpoint, exit, quit is in the namespace's
\* builtins: not in the set create_repl_namespace returns, and not after
\* any block has run.
C25_BlockedNamesStayAbsent == safe_builtins \cap Blocked = {}

(***************************************************************************)
(* SpecSub: the on_change handler of subscribe_to_thoughts, called with    *)
(* one payload after another.                                              *)
(*                                                                         *)
(* What a payload holds under a key:                                       *)
(*   "absent"   no such key, or None                                       *)
(*   "empty"    the dict {}                                                *)
(*   "text"     a value that is not a dict (a string)                      *)
(*   "nobody"   a dict without the key body                                *)
(*   "rec"      a dict whose body is a string                              *)
(*   "recnull"  a dict whose body is None                                  *)
(* A payload is a dict with the keys data, record, new (kind "dict"), an   *)
(* object with the attribute data (kind "obj") or anything else (kind      *)
(* "other"); data is absent, not a dict ("nondict") or a dict with the     *)
(* keys record and new.                                                    *)
(***************************************************************************)
Held == {"absent", "empty", "text", "nobody", "rec", "recnull"}

Datas ==
    {NoData, [shape |-> "nondict", record |-> "absent", new |-> "absent"]}
    \cup [shape : {"dict"}, record : Held, new : Held]

Payloads ==
    [kind : {"dict"}, data : Datas, record : Held, new : Held]
    \cup [kind : {"obj"}, data : Datas, record : {"absent"}, new : {"absent"}]
    \cup {[kind |-> "other", data |-> NoData, record |-> "absent",
           new |-> "absent"]}

\* bool(x)
Truthy(x) == x \notin {"absent", "empty"}
\* isinstance(x, dict)
IsDict(x) == x \in {"empty", "nobody", "rec", "recnull"}
\* "body" in x
HasBody(x) == x \in {"rec", "recnull"}
\* a or b
Or(a, b) == IF Truthy(a) THEN a ELSE b

\* on_change lines 137-147: the record taken from the payload.  A dict
\* without the key data gets {} for it, from which nothing is taken.
ExtractRecord(p) ==
    LET fromData == IF p.data.shape = "dict"
                    THEN Or(p.data.record, p.data.new) ELSE "absent"
    IN  CASE p.kind = "dict" ->
                 IF Truthy(fromData) THEN fromData ELSE Or(p.record, p.new)
          [] p.kind = "obj" /\ p.data.shape # "absent" -> fromData
          [] OTHER -> "absent"

\* on_change lines 148-153: "callback", "drop" or "raise"; the arguments of
\* log.info are evaluated before the callback is called, and
\* record.get("body", "")[:80] raises TypeError for a body that is None
on_change(p) ==
    LET record == ExtractRecord(p)
    IN  IF Truthy(record) /\ IsDict(record) /\ HasBody(record)
        THEN IF record = "recnull" THEN "raise" ELSE "callback"
        ELSE "drop"

\* the subscription calls on_change with a payload
SubDeliver ==
    /\ \E p \in Payloads :
         /\ payload' = p
         /\ callbacks' = IF on_change(p) = "callback"
                         THEN <<ExtractRecord(p)>> ELSE <<>>
         /\ on_change_raised' = (on_change(p) = "raise")
    /\ UNCHANGED <<nsVars, apiVars, hbVars, rlmVars, tlVars, agVars, tgVars,
                   extWrites, envVars>>

SubNext == SubDeliver

SpecSub == SeqInit /\ [][SubNext]_vars

\* the places the claim names: data.record, data.new, record, new
Candidates(p) ==
    (IF p.data.shape = "dict" THEN {p.data.record, p.data.new} ELSE {})
    \cup (IF p.kind = "dict" THEN {p.record, p.new} ELSE {})

\* a dict record containing a body field can be extracted from the payload
Extractable(p) == \E x \in Candidates(p) : IsDict(x) /\ HasBody(x)

\* C26: on_change calls the thought callback exactly when a dict record
\* with a body field can be extracted from the payload under data.record,
\* data.new, record or new, and otherwise drops the event with no exception.
C26_CallbackIffExtractable ==
    payload.kind # "none" =>
        /\ (callbacks # <<>>) <=> Extractable(payload)
        /\ ~on_change_raised


(***************************************************************************)
(* env main: the heartbeat and the dispatcher on one subscription.  The    *)
(* agent process commits action thoughts while the heartbeat of            *)
(* realtime_heartbeat probes and replaces the subscription; a change event *)
(* exists only on the subscriptions that were delivering when the row was  *)
(* written, and nothing in main reads the table for rows it was not told   *)
(* of.                                                                     *)
(***************************************************************************)
\* the change events of an inserted thought: one for every subscription
\* that is delivering
ThoughtEvents(row) ==
    {[ch |-> h, th |-> row] : h \in {g \in Handles : chan[g] = "live"}}

\* agent thought_api.generate_thought: the agent process persists an action
\* thought at the end of its timeline.  lastWrite.kind is "append_dead"
\* when main's subscription had stopped delivering at the time.
HealCommit ==
    /\ extWrites < MaxWrites
    /\ extWrites' = extWrites + 1
    /\ LET row == AgentRow(nextId, AGENT, ActionSp,
                           get_max_thought_index(rows, AGENT) + Unit)
       IN  /\ rows' = rows \cup {row}
           /\ nextId' = nextId + 1
           /\ feed' = feed \cup ThoughtEvents(row)
           /\ lastWrite' = [kind |-> IF chan[channel] = "dead"
                                     THEN "append_dead" ELSE "append",
                            ref |-> 0, index |-> row.index,
                            before |-> IndicesOf(rows, AGENT),
                            prev |-> Earlier(lastWrite)]
    /\ UNCHANGED <<nsVars, subVars, apiVars, hbVars, rlmVars, midExact, agVars,
                   tgVars, tasks, handled, loopOwner, fx>>

\* a delivering subscription hands a thought's change event to on_thought,
\* which schedules handle_thought: the filter, the dedup check,
\* _handled_ids.add and mark_thought_handled (lines 69-97)
HealDeliver ==
    /\ \E e \in feed :
          /\ chan[e.ch] = "live"
          /\ feed' = feed \ {e}
          /\ IF Actionable(e.th) /\ ~AlreadyHandled(e.th.id)
             THEN /\ handled' = handled \cup {e.th.id}
                  /\ rows' = MarkedRows(e.th.id, AGENT, e.th)
             ELSE UNCHANGED <<handled, rows>>
    /\ UNCHANGED <<nsVars, subVars, apiVars, hbVars, rlmVars, nextId, lastWrite,
                   midExact, agVars, tgVars, extWrites, tasks, loopOwner, fx>>

\* a step of realtime_heartbeat
HbStep ==
    \/ HbProbe
    \/ HbEchoSeen
    \/ HbTimeout
    \/ HbUnsubscribe
    \/ HbSubscribe
    \/ HbFinally

HealNext ==
    \/ ChannelDies
    \/ ForeignProbe
    \/ OnProbe
    \/ HbStep
    \/ HealCommit
    \/ HealDeliver

SpecHeal == HbInit /\ [][HealNext]_vars

\* the heartbeat keeps running and a delivering subscription delivers
SpecHealFair ==
    /\ SpecHeal
    /\ WF_vars(HbStep)
    /\ WF_vars(OnProbe)
    /\ WF_vars(HealDeliver)

\* the thought of the last commit
LastThought == {r \in rows : r.agent_name = AGENT /\ r.index = lastWrite.index}

\* thought i is an action thought that was committed while the
\* subscription in use had silently stopped delivering
DeadCommit(i) ==
    /\ lastWrite.kind = "append_dead"
    /\ \E r \in LastThought : r.id = i /\ is_action(r.body)

\* the subscription in use delivers: after a dead one, it is one the
\* heartbeat has installed since
FreshSubscription == chan[channel] = "live"

\* C27: an action thought committed while the subscription was silently
\* dead is handled by the dispatcher at some time after the heartbeat has
\* installed a fresh subscription.
C27_DeadCommitHandledAfterHeal ==
    \A i \in 1..MaxWrites :
        [](DeadCommit(i) /\ FreshSubscription => <>(i \in handled))


(***************************************************************************)
(* Spec with fairness: every event the subscription holds is delivered,    *)
(* every write and every task that has begun is carried on.                *)
(***************************************************************************)
SpecFair ==
    /\ Spec
    /\ WF_vars(AgentAddThought)
    /\ WF_vars(TelegramInsert)
    /\ WF_vars(OnThought)
    /\ \A t \in 1..MaxTasks : WF_vars(HandleThought(t))

\* the agent's generator has persisted thought i with needs_handling true
\* and the flag is still set
Flagged(i) ==
    \E r \in rows : r.id = i /\ r.agent_name = AGENT /\ r.needs_handling = "true"

\* the row of thought i has been marked handled
Marked(i) == \E r \in rows : r.id = i /\ r.needs_handling = "false"

\* the dispatcher took thought i and its mark_thought_handled call raised
MarkFailed(i) ==
    /\ i \in handled
    /\ fx[i].mark = 0
    /\ \A t \in 1..MaxTasks : tasks[t].th.id # i

\* C28: a thought the generator persisted with needs_handling true is
\* marked handled at some later time, unless the handled-mark write
\* itself failed.
C28_FlaggedEventuallyMarked ==
    \A i \in 1..MaxId : [](Flagged(i) => <>(Marked(i) \/ MarkFailed(i)))


(***************************************************************************)
(* The agent a delivered thought belongs to                                *)
(***************************************************************************)
\* thoughts in the table that belong to another agent than the one the env
\* process was started for
ForeignThoughts == {r \in rows : r.agent_name # AGENT}

\* what the dispatcher has done on behalf of thought i: handled-mark
\* writes issued, capability invocations (generate_action, execute_tool),
\* result thoughts written to the agent's timeline
SideEffects(i) == fx[i].mark + fx[i].gen + fx[i].tool + fx[i].result

\* C29: the dispatcher of the env process of agent A issues no handled-mark
\* write, invokes no capability and writes no result thought on behalf of a
\* delivered thought of another agent.
C29_OnlyOwnThoughtsActedOn ==
    \A r \in ForeignThoughts : SideEffects(r.id) = 0


(***************************************************************************)
(* env main: embedding.  The subscription is for event "*": it delivers    *)
(* the change event of every insert and of every update of a row, the      *)
(* env process's own updates included, and on_thought schedules            *)
(* handle_thought and embed_thought for each record delivered.             *)
(***************************************************************************)
\* thoughts that get created: an action thought and a plain thought of the
\* agent, and an observation written through the env's add_thought
CreatedRows(id, index) ==
    {AgentRow(id, AGENT, ActionSp, index), AgentRow(id, AGENT, Plain, index),
     EnvRow(id, AGENT, Observation, index)}

\* the change events of a write: the record of every row written
ChangeEvents(written) == written

\* a thought is created at the end of the agent's timeline
EmbedCreate ==
    /\ extWrites < MaxWrites
    /\ extWrites' = extWrites + 1
    /\ \E row \in CreatedRows(nextId, append_index(rows, AGENT)) :
          /\ rows' = rows \cup {row}
          /\ nextId' = nextId + 1
          /\ feed' = feed \cup ChangeEvents({row})
          /\ lastWrite' = [kind |-> "append", ref |-> 0, index |-> row.index,
                           before |-> IndicesOf(rows, AGENT),
                           prev |-> Earlier(lastWrite)]
    /\ UNCHANGED <<nsVars, subVars, apiVars, hbVars, rlmVars, midExact, agVars,
                   tgVars, tasks, handled, loopOwner, fx>>

\* embed_thought line 48: no id, or a body shorter than the minimum
Embeddable(th) ==
    th.id # 0 /\ CharLen(Strip(th.body)) >= MIN_BODY_LENGTH_FOR_EMBEDDING

\* on_thought for a delivered record: handle_thought runs its filter, the
\* dedup check and the handled-mark update (what it does after that
\* creates a thought: EmbedCreate), and embed_thought is scheduled
EmbedDeliver ==
    /\ \E e \in feed :
          LET act == Actionable(e) /\ ~AlreadyHandled(e.id)
              marked == IF act THEN MarkedRows(e.id, AGENT, e) ELSE rows
          IN  /\ rows' = marked
              /\ handled' = IF act THEN handled \cup {e.id} ELSE handled
              /\ feed' = (feed \ {e}) \cup ChangeEvents(marked \ rows)
              /\ IF Embeddable(e)
                 THEN /\ FreeSlots # {}
                      /\ tasks' = [tasks EXCEPT ![SetMin(FreeSlots)] =
                                       [pc |-> "embed", th |-> e, idx |-> 0]]
                 ELSE UNCHANGED tasks
    /\ UNCHANGED <<nsVars, subVars, apiVars, hbVars, rlmVars, nextId, lastWrite,
                   midExact, agVars, tgVars, extWrites, loopOwner, fx>>

\* embed_thought lines 50-62: the provider returns the vector and
\* update_thought_embedding stores it, or a call raises and the exception
\* is logged
EmbedWrite(t) ==
    /\ tasks[t].pc = "embed"
    /\ \E ok \in BOOLEAN :
          IF ok
          THEN /\ rows' = EmbeddedRows(tasks[t].th.id, Vector)
               /\ feed' = feed \cup
                            ChangeEvents({r \in rows' : r.id = tasks[t].th.id})
          ELSE UNCHANGED <<rows, feed>>
    /\ tasks' = [tasks EXCEPT ![t] = FreeTask]
    /\ UNCHANGED <<nsVars, subVars, apiVars, hbVars, rlmVars, nextId, lastWrite,
                   midExact, agVars, tgVars, extWrites, handled, loopOwner, fx>>

EmbedNext ==
    \/ EmbedCreate
    \/ EmbedDeliver
    \/ \E t \in 1..MaxTasks : EmbedWrite(t)

SpecEmbed == SeqInit /\ [][EmbedNext]_vars

\* every event is delivered and every embed_thought task runs on
SpecEmbedFair ==
    /\ SpecEmbed
    /\ WF_vars(EmbedDeliver)
    /\ \A t \in 1..MaxTasks : WF_vars(EmbedWrite(t))

\* no change event is waiting and no embedding write is pending
EmbedQuiet == feed = {} /\ \A t \in 1..MaxTasks : tasks[t].pc # "embed"

\* C30: embedding writes are finite: from some time on no embedding write
\* is pending and no change event is left that could cause one.
C30_EmbeddingQuiesces == <>[]EmbedQuiet


(***************************************************************************)
(* Further claims on SpecHb and Spec                                       *)
(***************************************************************************)
\* the subscriptions of the env process that deliver to on_thought
LiveHandles == {h \in Handles : chan[h] = "live"}

\* C31: at any time at most one thought subscription of the env process
\* delivers: once the heartbeat has installed a new one, the one before it
\* delivers no more events to on_thought.
C31_AtMostOneLive == Cardinality(LiveHandles) <= 1


\* the step is on_thought accepting a delivery of thought i
Accepts(i) == fx'[i].pass = fx[i].pass + 1

\* the tasks of handle_thought that have begun and are not over
InProgress == {t \in 1..MaxTasks : tasks[t].pc \notin {"free", "done"}}

\* C32: when on_thought accepts a delivery it only schedules: after the
\* step the task of the thought has begun and is not over, nothing of the
\* handling (mark write, capability call, result thought) has been done,
\* and the tasks of earlier deliveries stand where they stood.
C32_CallbackOnlySchedules ==
    [][\A i \in 1..MaxId :
          Accepts(i) =>
              /\ \E t \in 1..MaxTasks :
                    /\ tasks[t].pc = "free"
                    /\ tasks'[t].th.id = i
                    /\ tasks'[t].pc \notin {"free", "done"}
                    /\ \A u \in (1..MaxTasks) \ {t} : tasks'[u] = tasks[u]
              /\ fx' = [fx EXCEPT ![i].pass = @ + 1]
              /\ rows' = rows]_vars

\* C32 witness: a second delivery was accepted while the task of an earlier
\* one is suspended in its tool call.
C32_Witness ==
    \E t \in InProgress, u \in InProgress :
        /\ tasks[t].pc = "tool"
        /\ tasks[u].pc = "mark"
        /\ tasks[u].th.id # tasks[t].th.id


\* C33: a thought whose id is in _handled_ids and whose handle_thought call
\* is over has needs_handling false in the table, whichever call of the
\* handling raised.
C33_HandledMeansMarked ==
    \A r \in rows : TaskOver(r.id) => r.needs_handling = "false"


(***************************************************************************)
(* SpecTable: every write either daemon makes to the thoughts table, one   *)
(* after another: the appends, the handled-mark update (also for a record  *)
(* that was delivered before the row was marked), the embedding update,    *)
(* and the heartbeat's insert and delete of its probe row.                 *)
(***************************************************************************)
\* handle_thought up to line 97 on a delivered record of an action thought:
\* the record carries needs_handling true, the row may have been marked
\* since (by an env process that has restarted, or by another one)
TblMark ==
    /\ \E r \in rows :
         /\ r.needs_handling \in {"true", "false"}
         /\ Actionable([r EXCEPT !.needs_handling = "true"])
         /\ rows' = MarkedRows(r.id, AGENT, [r EXCEPT !.needs_handling = "true"])
    /\ UNCHANGED <<nsVars, subVars, apiVars, hbVars, rlmVars, nextId, lastWrite,
                   midExact, agVars, tgVars, extWrites, envVars>>

\* realtime_heartbeat lines 233-240: the probe row is inserted and probe_id
\* is its id, or None when the insert returns no data
TblProbeInsert ==
    /\ nextId <= MaxRows
    /\ Cardinality(probes) < MaxCycles
    /\ probe_id = 0
    /\ rows' = rows \cup {ProbeRow(nextId, AGENT)}
    /\ nextId' = nextId + 1
    /\ probes' = probes \cup {nextId}
    /\ \E data \in BOOLEAN : probe_id' = IF data THEN nextId ELSE 0
    /\ UNCHANGED <<nsVars, subVars, apiVars, rlmVars, lastWrite, midExact,
                   agVars, tgVars, extWrites, envVars, hbPc, cycle, channel,
                   chan, heartbeat_event, pending, foreign, curProbe, echoAt,
                   before>>

\* realtime_heartbeat lines 257-263: if probe_id, delete ... eq id probe_id,
\* or the delete raises and the exception is passed over
TblProbeDelete ==
    /\ probe_id # 0
    /\ \/ rows' = {r \in rows : r.id # probe_id}
       \/ UNCHANGED rows
    /\ probe_id' = 0
    /\ UNCHANGED <<nsVars, subVars, apiVars, rlmVars, nextId, lastWrite, midExact,
                   agVars, tgVars, extWrites, envVars, hbPc, cycle, channel,
                   chan, heartbeat_event, probes, pending, foreign, curProbe,
                   echoAt, before>>

\* a thought is created at the end of the agent's timeline
TblAppend ==
    /\ nextId <= MaxRows
    /\ extWrites < MaxWrites
    /\ extWrites' = extWrites + 1
    /\ \E row \in CreatedRows(nextId, append_index(rows, AGENT)) :
          /\ rows' = rows \cup {row}
          /\ lastWrite' = [kind |-> "append", ref |-> 0, index |-> row.index,
                           before |-> IndicesOf(rows, AGENT),
                           prev |-> Earlier(lastWrite)]
    /\ nextId' = nextId + 1
    /\ UNCHANGED <<nsVars, subVars, apiVars, hbVars, rlmVars, midExact, agVars,
                   tgVars, envVars>>

TableNext ==
    \/ TblAppend
    \/ TblMark
    \/ TableEmbed
    \/ TblProbeInsert
    \/ TblProbeDelete

SpecTable == SeqInit /\ [][TableNext]_vars

\* the row with r's id after the step, if it is still there
After(r) == {q \in rows' : q.id = r.id}

\* C34: needs_handling is monotone and rows stay: in every step a row whose
\* needs_handling is false keeps it false, and a row that is gone after the
\* step is a heartbeat probe row this env process inserted.
C34_HandledStaysAndRowsStay ==
    [][\A r \in rows :
          /\ r.needs_handling = "false" =>
                 \A q \in After(r) : q.needs_handling = "false"
          /\ After(r) = {} => r.body = ProbeBody /\ r.id \in probes]_vars

\* C34 witness: a marked action thought, an embedded observation and a
\* thought written after a probe row that has been deleted again.
C34_Witness ==
    /\ \E r \in rows : r.needs_handling = "false" /\ is_action(r.body)
    /\ \E r \in rows : r.embedding = Vector
    /\ \E i \in probes : /\ \A r \in rows : r.id # i
                         /\ \E r \in rows : r.id > i


(***************************************************************************)
(* The generation loop and the dispatcher                                  *)
(***************************************************************************)
\* the thoughts the generator of the agent has persisted: its rows carry
\* the needs_handling metadata
Generated == {r \in rows : r.agent_name = AGENT /\ r.needs_handling # None}

\* C35: when the generator has persisted a thought after an action thought
\* of its own, the dispatcher has written the result thought of that
\* action.
C35_NextThoughtAfterResult ==
    \A a \in Generated, n \in Generated :
        (is_action(a.body) /\ n.id > a.id) => fx[a.id].result >= 1


(***************************************************************************)
(* Further claims on SpecLoop                                              *)
(***************************************************************************)
\* the loop tasks that can still run a cycle: created and not over, with
\* no cancellation on its way to them
AliveLoops == {i \in 1..MaxStarts : Runnable(i) /\ ~loops[i].must_cancel}

\* the loop tasks that are not done
PendingLoops == {i \in 1..MaxStarts : Runnable(i)}

MaxDelay == 2

Delays == (0 - MaxDelay)..MaxDelay

\* thought_api line 175: asyncio.sleep(5), in milliseconds
COOLDOWN_MS == 5000

\* texts run_rlm_loop may return: actions in both casings, with and without
\* the blank, with leading whitespace, and texts that are no action
DelayBodies ==
    {ActionSp, ActionNoSp, <<" ", "ACTION:", " ", "x">>, Plain, Observation}

\* the delay is not doubled
wait_ms_same(delay, act) == delay

\* thought_api line 169: req.delay_ms * 2 if is_action else req.delay_ms
wait_ms(delay, act) == IF act THEN delay * 2 ELSE delay

\* asyncio.sleep(ms / 1000.0): a delay that is not positive returns after
\* one pass of the event loop; the time slept, in milliseconds
asyncio_sleep(ms) == IF ms <= 0 THEN 0 ELSE ms

\* POST /loop/start with its delay_ms
DelayStart ==
    /\ IF loop_running
       THEN /\ lastReq' = "already_running"
            /\ UNCHANGED <<loop_running, loop_task, loops, delay_ms>>
       ELSE /\ \E d \in Delays : delay_ms' = d
            /\ loops[1].pc = "unborn"
            /\ loop_running' = TRUE
            /\ loops' = [loops EXCEPT ![1].pc = "ready"]
            /\ loop_task' = 1
            /\ lastReq' = "start"
    /\ UNCHANGED <<nsVars, subVars, hbVars, rlmVars, tlVars, agVars, tgVars,
                   extWrites, envVars, slept>>

\* run_loop, one cycle: the thought is persisted and the task sleeps
\* wait_ms, or a call raised and it sleeps 5 s
DelayCycle ==
    /\ loop_running
    /\ Runnable(1)
    /\ loops[1].cycles < MaxLoopCycles
    /\ \/ \E b \in DelayBodies :
            LET idx == get_max_thought_index(rows, AGENT) + Unit
            IN  /\ rows' = rows \cup {AgentRow(nextId, AGENT, b, idx)}
                /\ nextId' = nextId + 1
                /\ lastWrite' = [kind |-> "append", ref |-> 0, index |-> idx,
                                 before |-> IndicesOf(rows, AGENT),
                                 prev |-> Earlier(lastWrite)]
                /\ slept' = asyncio_sleep(wait_ms(delay_ms, is_action(b)))
                /\ loops' = [loops EXCEPT ![1].pc = "sleep",
                                          ![1].cycles = @ + 1,
                                          ![1].persisted = @ + 1,
                                          ![1].last = "thought"]
                /\ UNCHANGED midExact
       \/ /\ slept' = asyncio_sleep(COOLDOWN_MS)
          /\ loops' = [loops EXCEPT ![1].pc = "cooldown",
                                    ![1].cycles = @ + 1,
                                    ![1].last = "error"]
          /\ UNCHANGED tlVars
    /\ UNCHANGED <<nsVars, subVars, hbVars, rlmVars, agVars, tgVars, extWrites,
                   envVars, loop_running, loop_task, lastReq, delay_ms>>

DelayNext == DelayStart \/ DelayCycle

SpecDelay == SeqInit /\ [][DelayNext]_vars

\* the step persists thought r and the sleep that follows it lasts 2 x
\* delay_ms if r is an action, delay_ms if not
SleepsByRule(r) ==
    slept' = IF is_action(r.body) THEN 2 * delay_ms ELSE delay_ms

\* C36 as stated: after every cycle that persists a thought the loop sleeps
\* exactly 2 x delay_ms for an action and exactly delay_ms otherwise.
C36_SleepIsDelayOrDouble ==
    [][\A r \in rows' \ rows : SleepsByRule(r)]_vars

\* C36: the same for a delay_ms that is not negative.
C36_SleepIsDelayOrDoubleNonNeg ==
    [][\A r \in rows' \ rows : delay_ms >= 0 => SleepsByRule(r)]_vars

\* C36 witness: with a positive delay_ms the loop has just persisted an
\* action written in capitals after a blank, and has slept twice delay_ms.
C36_Witness ==
    /\ delay_ms > 0
    /\ loops[1].last = "thought"
    /\ slept = 2 * delay_ms
    /\ \E r \in rows : /\ r.index = lastWrite.index
                       /\ r.body = <<" ", "ACTION:", " ", "x">>


(***************************************************************************)
(* SpecSentinel: on_thought as a whole.  Records whose body starts with    *)
(* the heartbeat sentinel (the heartbeat's probe rows, and a message that  *)
(* happens to start with it) are delivered along with the thoughts.        *)
(***************************************************************************)
\* a message that starts with the sentinel
SentinelText == ProbeBody \o <<" ", "x">>

\* rows whose body starts with the sentinel: the heartbeat's probe row
\* (index -1) and a Telegram message appended to the timeline
SentinelRows(id, index) ==
    {ProbeRow(id, AGENT), EnvRow(id, AGENT, SentinelText, index)}

\* on_thought without its first test
IsProbe_never(th) == FALSE

\* on_thought line 199: thought.get("body", "").startswith("__heartbeat_probe__")
IsProbe(th) == StartsWith(th.body, ProbeBody)

\* a row with the sentinel is inserted
SentinelCreate ==
    /\ extWrites < MaxWrites
    /\ extWrites' = extWrites + 1
    /\ \E row \in SentinelRows(nextId, append_index(rows, AGENT)) :
          /\ rows' = rows \cup {row}
          /\ feed' = feed \cup ChangeEvents({row})
    /\ nextId' = nextId + 1
    /\ UNCHANGED <<nsVars, subVars, apiVars, hbVars, rlmVars, lastWrite, midExact,
                   agVars, tgVars, tasks, handled, loopOwner, fx>>

\* on_thought for a delivered record: a probe sets heartbeat_event and
\* nothing is scheduled; for any other record handle_thought (filter, dedup
\* check, handled-mark update) and embed_thought are scheduled
OnThoughtRecord ==
    /\ \E e \in feed :
          IF IsProbe(e)
          THEN /\ heartbeat_event' = TRUE
               /\ feed' = feed \ {e}
               /\ UNCHANGED <<rows, handled, tasks>>
          ELSE LET act == Actionable(e) /\ ~AlreadyHandled(e.id)
                   marked == IF act THEN MarkedRows(e.id, AGENT, e) ELSE rows
               IN  /\ rows' = marked
                   /\ handled' = IF act THEN handled \cup {e.id} ELSE handled
                   /\ feed' = (feed \ {e}) \cup ChangeEvents(marked \ rows)
                   /\ IF Embeddable(e)
                      THEN /\ FreeSlots # {}
                           /\ tasks' = [tasks EXCEPT ![SetMin(FreeSlots)] =
                                            [pc |-> "embed", th |-> e, idx |-> 0]]
                      ELSE UNCHANGED tasks
                   /\ UNCHANGED heartbeat_event
    /\ UNCHANGED <<nsVars, subVars, apiVars, rlmVars, nextId, lastWrite, midExact,
                   agVars, tgVars, extWrites, loopOwner, fx, hbPc, cycle,
                   channel, chan, probe_id, probes, pending, foreign, curProbe,
                   echoAt, before>>

SentinelNext ==
    \/ EmbedCreate
    \/ SentinelCreate
    \/ OnThoughtRecord
    \/ \E t \in 1..MaxTasks : EmbedWrite(t)

SpecSentinel == SeqInit /\ [][SentinelNext]_vars

\* C38: a thought whose body starts with the heartbeat sentinel is never
\* given to handle_thought or embed_thought: its id is not in _handled_ids,
\* its metadata and its embedding are as they were inserted, and no
\* embed_thought task holds it.
C38_ProbeOnlySetsEvent ==
    /\ \A r \in rows :
          StartsWith(r.body, ProbeBody) =>
              /\ r.id \notin handled
              /\ r.needs_handling = None
              /\ r.embedding = None
    /\ \A t \in 1..MaxTasks :
          tasks[t].pc = "embed" => ~StartsWith(tasks[t].th.body, ProbeBody)

\* C38 witness: the event of a probe row has been delivered and the
\* heartbeat event is set, and another thought has been embedded.
C38_Witness ==
    /\ heartbeat_event
    /\ feed = {}
    /\ \E r \in rows : r.body = ProbeBody
    /\ \E r \in rows : r.embedding = Vector


(***************************************************************************)
(* What the env process writes and what its dispatcher takes               *)
(***************************************************************************)
\* the rows the env process has written (tool observation, text result,
\* Telegram message): add_thought inserts agent_name, body and index only
EnvWritten == {r \in rows : r.needs_handling = None}

\* the thoughts a generator has persisted (its add_thought writes the
\* needs_handling metadata) whose body starts with "action:"
WrittenActions ==
    {r \in rows : r.needs_handling # None /\ HasActionPrefix(r.body)}

\* no row written by the env process is in _handled_ids or held by a task,
\* none has a delivery that passed, a mark, a capability invocation or a
\* result thought of its own; generate_action and execute_tool are each
\* called at most once per action thought a generator has written and for
\* no other thought
NoEnvThoughtTaken ==
    /\ \A r \in EnvWritten :
          /\ r.id \notin handled
          /\ fx[r.id].pass = 0
          /\ SideEffects(r.id) = 0
          /\ \A t \in 1..MaxTasks : tasks[t].th.id # r.id
          /\ ~Actionable(r)
    /\ \A i \in 1..MaxId :
          fx[i].gen + fx[i].tool > 0 =>
              /\ fx[i].gen <= 1 /\ fx[i].tool <= 1
              /\ \E r \in rows : r.id = i /\ r \in WrittenActions

\* the last insert was a result thought of the dispatcher (tool
\* observation or text result); the datastore gave it the id nextId - 1
ResultWritten == lastWrite.kind \in {"insert", "text"}

\* C39: no thought written by the env process is taken by the dispatcher,
\* the capability invocations are at most one per action thought written
\* by a generator, and the result thought the dispatcher has just written
\* has no pending delivery that carries needs_handling = true.
C39_EnvThoughtsNotActionable ==
    /\ NoEnvThoughtTaken
    /\ ResultWritten => \A e \in feed : e.id # nextId - 1

\* C39 witness: the dispatcher has written a text result whose body is
\* itself an action, and a tool observation, every delivery has been taken
\* and every task is over.
C39_Witness ==
    /\ \E r \in EnvWritten : is_action(r.body) /\ lastWrite.kind = "text"
    /\ \E i \in 1..MaxId : fx[i].tool = 1 /\ fx[i].result = 1
    /\ feed = {}
    /\ \A t \in 1..MaxTasks : tasks[t].pc \in {"free", "done"}

=============================================================================
